---- MODULE Spec2Model ----
(***************************************************************************)
(* Authentication and secrets subsystem of the ESCAPE Creator Engine:      *)
(* core/auth.py (AuthMiddleware, require_auth, the token issuer) over the   *)
(* secret store of core/secrets.py.                                         *)
(*                                                                          *)
(* Time is an integer clock (seconds).  A scope list held by a principal is *)
(* read by the code only through membership ("x in user.scopes"), so it is  *)
(* a set here; a list of REQUIRED scopes is iterated in order and stays a   *)
(* sequence.  The passive fields username, email and created_at travel with *)
(* role through every conversion and are left out.                          *)
(***************************************************************************)
EXTENDS Integers, Sequences, FiniteSets, Bags, TLC

(***************************************************************************)
(* Bounds of the model.                                                     *)
(***************************************************************************)
\* The clock stops here.
MaxTime == 300
\* Number of authenticate calls that can be in flight at once.
NumReq == 2
\* Number of set_secret calls that can be between their check and their write.
MaxSets == 2
\* Highest row id the table assigns.
MaxId == 2
\* Longest required-scope list drawn for the scope check.
MaxRequired == 2
\* Longest string drawn for encrypt and decrypt.
MaxLen == 3

(***************************************************************************)
(* Program constants.                                                       *)
(***************************************************************************)
\* AuthMiddleware.api_token_cache_ttl
api_token_cache_ttl == 300
\* Granularity of the clock: a third of the cache TTL, so that ages of
\* exactly TTL and of just under TTL both occur.
TimeStep == api_token_cache_ttl \div 3

\* the token strings, in the order token_urlsafe hands them out
TokenOrder == <<"t1", "t2">>
Tokens == {TokenOrder[i] : i \in 1..Len(TokenOrder)}
NoToken == "<none>"
NoRole == "<None>"
ScopeNames == {"read", "write", "*"}
\* os.environ JWT_SECRET / jwt_secret argument; NoSecret is None.
NoSecret == "<None>"
ServerSecret == "k1"
OtherSecret == "k2"

ErrAuthFailed == "Authentication failed. No valid API token or JWT token provided."
ErrInvalidToken == "Invalid API token."
ErrTokenFormat == "Invalid API token data format."
ErrApiException == "Error authenticating API token: <exception>"
ErrJwtNotConfigured == "JWT authentication is not configured."
ErrJwtExpired == "JWT token has expired."
ErrJwtSigExpired == "Invalid JWT token: Signature has expired"
ErrJwtBadSig == "Invalid JWT token: Signature verification failed"
ErrJwtMalformed == "Invalid JWT token: Not enough segments"
ErrNotRun == "<not run>"
\* an exception that left the function instead of a result
ErrRaised == "<raised>"

(***************************************************************************)
(* Sequences of length <= n over S.                                         *)
(***************************************************************************)
SeqsUpTo(S, n) == UNION {[1..k -> S] : k \in 0..n}

\* ', '.join(xs)
RECURSIVE Join(_)
Join(xs) ==
    IF Len(xs) = 0 THEN <<>>
    ELSE IF Len(xs) = 1 THEN <<xs[1]>>
    ELSE <<xs[1], ", ">> \o Join(Tail(xs))

(***************************************************************************)
(* AuthUser and AuthResult.                                                 *)
(***************************************************************************)
AuthUser(id, role, scopes) == [id |-> id, role |-> role, scopes |-> scopes]
NoUser == [id |-> "<no user>", role |-> NoRole, scopes |-> {}]
\* authenticate's development principal (skip_auth)
DevUser == AuthUser("dev", "admin", {"*"})

\* error is a pair <<message, argument list>>: the f-string's fixed text and
\* what it interpolates.
AuthResult(success, user, error) ==
    [success |-> success, user |-> user, error |-> error]
Ok(user) == AuthResult(TRUE, user, <<"", <<>>>>)
Fail(msg) == AuthResult(FALSE, NoUser, <<msg, <<>>>>)
ErrInsufficient(required) ==
    <<"Insufficient permissions. Required scopes: ", Join(required)>>
NotRun == Fail(ErrNotRun)

(***************************************************************************)
(* AuthMiddleware._has_required_scopes                                      *)
(***************************************************************************)
\* the for loop over self.required_scopes, from index i
RECURSIVE ScanRequired(_, _, _)
ScanRequired(required, i, scopes) ==
    IF i > Len(required) THEN TRUE
    ELSE IF required[i] \notin scopes THEN FALSE
    ELSE ScanRequired(required, i + 1, scopes)

\* a plausible slip: any-of instead of all-of
HasRequiredScopesAnyOf(scopes, required) ==
    IF Len(required) = 0 THEN TRUE
    ELSE IF "*" \in scopes THEN TRUE
    ELSE \E i \in 1..Len(required) : required[i] \in scopes

HasRequiredScopes(scopes, required) ==
    IF Len(required) = 0 THEN TRUE
    ELSE IF "*" \in scopes THEN TRUE
    ELSE ScanRequired(required, 1, scopes)

(***************************************************************************)
(* Conversions.  A value of type Optional[int] is <<>> (None) or <<n>>.     *)
(***************************************************************************)
NoneInt == <<>>
\* Python truthiness of an Optional[int]: None and 0 are falsy
Truthy(optInt) == optInt # <<>> /\ optInt[1] # 0

\* the token_data / user_data dictionary
NoDoc == [id |-> "<no doc>", role |-> NoRole, scopes |-> {},
          has_expires_at |-> FALSE, expires_at |-> 0]
\* a text: the characters of a JSON object ("json"), of a JSON value that is
\* not an object ("jsonval"), characters that are not JSON ("raw"), or none
\* (Python None); what an await produced is a text or an exception ("raise")
NoText == [kind |-> "none", doc |-> NoDoc]
RawText(s) == [kind |-> "raw", doc |-> [NoDoc EXCEPT !.id = s]]
JsonValueText == [kind |-> "jsonval", doc |-> NoDoc]
Raised == [kind |-> "raise", doc |-> NoDoc]
\* json.dumps
JsonDumps(doc) == [kind |-> "json", doc |-> doc]
\* json.loads: raises JSONDecodeError on a text that is not JSON
JsonLoads(text) ==
    IF text.kind = "json" THEN [ok |-> TRUE, is_object |-> TRUE, doc |-> text.doc]
    ELSE IF text.kind = "jsonval" THEN [ok |-> TRUE, is_object |-> FALSE, doc |-> NoDoc]
    ELSE [ok |-> FALSE, is_object |-> FALSE, doc |-> NoDoc]

\* the Fernet key of the process
EncKey == "fernet-key"
\* a row of the secrets table (its value column), or no row
NoRec == [kind |-> "none", key |-> "", text |-> NoText]
\* SecretsManager.encrypt
Encrypt(key, text) == [kind |-> "enc", key |-> key, text |-> text]
\* SecretsManager.decrypt: raises unless the ciphertext was made under key
Decrypt(key, rec) ==
    IF rec.kind = "enc" /\ rec.key = key THEN [ok |-> TRUE, text |-> rec.text]
    ELSE [ok |-> FALSE, text |-> NoText]

(***************************************************************************)
(* Strings as sequences of code points, bytes as sequences of 0..255.       *)
(***************************************************************************)
\* 'a', e acute, the euro sign, an emoji, and a lone surrogate
CodePoints == {97, 233, 8364, 128512, 55296}
IsSurrogate(cp) == cp >= 55296 /\ cp <= 57343
\* the UTF-8 bytes of one code point
Utf8Char(cp) ==
    IF cp < 128 THEN <<cp>>
    ELSE IF cp < 2048 THEN <<192 + (cp \div 64), 128 + (cp % 64)>>
    ELSE IF cp < 65536
    THEN <<224 + (cp \div 4096), 128 + ((cp \div 64) % 64), 128 + (cp % 64)>>
    ELSE <<240 + (cp \div 262144), 128 + ((cp \div 4096) % 64),
           128 + ((cp \div 64) % 64), 128 + (cp % 64)>>
\* str.encode(): UnicodeEncodeError (ok = FALSE) on a surrogate
RECURSIVE StrEncode(_)
StrEncode(data) ==
    IF data = <<>> THEN [ok |-> TRUE, bytes |-> <<>>]
    ELSE IF IsSurrogate(Head(data)) THEN [ok |-> FALSE, bytes |-> <<>>]
    ELSE LET rest == StrEncode(Tail(data)) IN
         IF ~rest.ok THEN rest
         ELSE [ok |-> TRUE, bytes |-> Utf8Char(Head(data)) \o rest.bytes]
IsContinuation(b) == b >= 128 /\ b < 192
\* bytes.decode() reading every byte as one character
StrDecodeBytewise(bytes) == [ok |-> TRUE, str |-> bytes]
\* bytes.decode(): UnicodeDecodeError (ok = FALSE) on bytes that are not UTF-8
RECURSIVE StrDecode(_)
StrDecode(bytes) ==
    IF bytes = <<>> THEN [ok |-> TRUE, str |-> <<>>]
    ELSE LET b == Head(bytes)
             n == IF b < 128 THEN 1 ELSE IF b >= 194 /\ b < 224 THEN 2
                  ELSE IF b >= 224 /\ b < 240 THEN 3
                  ELSE IF b >= 240 /\ b < 245 THEN 4 ELSE 0
         IN  IF n = 0 \/ Len(bytes) < n
                \/ \E i \in 2..n : ~IsContinuation(bytes[i])
             THEN [ok |-> FALSE, str |-> <<>>]
             ELSE LET cp == IF n = 1 THEN b
                            ELSE IF n = 2 THEN (b - 192) * 64 + (bytes[2] - 128)
                            ELSE IF n = 3
                            THEN (b - 224) * 4096 + (bytes[2] - 128) * 64
                                 + (bytes[3] - 128)
                            ELSE (b - 240) * 262144 + (bytes[2] - 128) * 4096
                                 + (bytes[3] - 128) * 64 + (bytes[4] - 128)
                      rest == StrDecode(SubSeq(bytes, n + 1, Len(bytes)))
                  IN  IF IsSurrogate(cp) \/ (n = 3 /\ cp < 2048) \/ (n = 4 /\ cp < 65536)
                         \/ cp > 1114111 \/ ~rest.ok
                      THEN [ok |-> FALSE, str |-> <<>>]
                      ELSE [ok |-> TRUE, str |-> <<cp>> \o rest.str]

\* SecretsManager.encrypt(data) under key: the token, or the exception
EncryptStr(key, data) ==
    LET b == StrEncode(data) IN
    IF ~b.ok THEN [ok |-> FALSE, token |-> NoRec]
    ELSE [ok |-> TRUE, token |-> Encrypt(key, b.bytes)]
\* SecretsManager.decrypt(encrypted_data) under key: the string, or the
\* exception
DecryptStr(key, encrypted_data) ==
    LET d == Decrypt(key, encrypted_data) IN
    IF ~d.ok THEN [ok |-> FALSE, str |-> <<>>]
    ELSE StrDecode(d.text)

\* core.secrets.get_secret(name) on a store that answers: the decrypted
\* value of the row, or None when there is no row or it does not decrypt
GetSecretValue(st, name) ==
    IF st[name].kind = "none" THEN NoText
    ELSE LET d == Decrypt(EncKey, st[name]) IN
         IF d.ok THEN d.text ELSE NoText

\* token_data built without the role
TokenDataDropsRole(user_id, role, scopes, expires_in, t) ==
    [id |-> user_id, role |-> NoRole, scopes |-> scopes,
     has_expires_at |-> Truthy(expires_in),
     expires_at |-> IF Truthy(expires_in) THEN t + expires_in[1] ELSE 0]

\* create_api_token: the token_data dictionary
TokenData(user_id, role, scopes, expires_in, t) ==
    [id |-> user_id, role |-> role, scopes |-> scopes,
     has_expires_at |-> Truthy(expires_in),
     expires_at |-> IF Truthy(expires_in) THEN t + expires_in[1] ELSE 0]

(***************************************************************************)
(* Signed tokens.  A JWT is its payload and the secret that signed it.      *)
(***************************************************************************)
NoPayload == [sub |-> "<none>", role |-> NoRole, scopes |-> {},
              has_exp |-> FALSE, exp |-> 0, iat |-> 0]
NoJwt == [kind |-> "none", key |-> "", payload |-> NoPayload]
MalformedJwt == [kind |-> "malformed", key |-> "", payload |-> NoPayload]
\* jwt.encode
JwtEncode(payload, secret) == [kind |-> "jwt", key |-> secret, payload |-> payload]

\* create_jwt_token at time t; with no secret it raises ValueError (ok = FALSE)
CreateJwtToken(user_id, role, scopes, expires_in, secret, t) ==
    IF secret = NoSecret THEN [ok |-> FALSE, token |-> NoJwt]
    ELSE [ok |-> TRUE,
          token |-> JwtEncode(
              [sub |-> user_id, role |-> role, scopes |-> scopes,
               has_exp |-> Truthy(expires_in),
               exp |-> IF Truthy(expires_in) THEN t + expires_in[1] ELSE 0,
               iat |-> t],
              secret)]

\* a header value: the text before the token, and the token
NoHeader == [present |-> FALSE, prefix |-> "", token |-> NoJwt]
Header(prefix, token) == [present |-> TRUE, prefix |-> prefix, token |-> token]

\* authenticate: remove the "Bearer " prefix if present
StripBearer(h) == IF h.prefix = "Bearer " THEN [h EXCEPT !.prefix = ""] ELSE h

\* jwt.decode(token, secret, algorithms=[alg]) at time t: the payload, or
\* the PyJWTError it raises
JwtDecode(h, secret, t) ==
    IF h.prefix # "" \/ h.token.kind # "jwt" THEN [ok |-> FALSE, err |-> ErrJwtMalformed]
    ELSE IF h.token.key # secret THEN [ok |-> FALSE, err |-> ErrJwtBadSig]
    ELSE IF h.token.payload.has_exp /\ h.token.payload.exp <= t
         THEN [ok |-> FALSE, err |-> ErrJwtSigExpired]
    ELSE [ok |-> TRUE, err |-> ""]

\* _authenticate_jwt_token with no expiry check (verify_exp off, no test of exp)
AuthenticateJwtTokenNoExp(h, secret, required, t) ==
    IF secret = NoSecret THEN Fail(ErrJwtNotConfigured)
    ELSE IF h.prefix # "" \/ h.token.kind # "jwt" THEN Fail(ErrJwtMalformed)
    ELSE IF h.token.key # secret THEN Fail(ErrJwtBadSig)
    ELSE LET payload == h.token.payload
             user == AuthUser(payload.sub, payload.role, payload.scopes)
         IN  IF ~HasRequiredScopes(user.scopes, required)
             THEN AuthResult(FALSE, NoUser, ErrInsufficient(required))
             ELSE Ok(user)

\* AuthMiddleware._authenticate_jwt_token
AuthenticateJwtToken(h, secret, required, t) ==
    IF secret = NoSecret THEN Fail(ErrJwtNotConfigured)
    ELSE LET d == JwtDecode(h, secret, t) IN
         IF ~d.ok THEN Fail(d.err)
         ELSE LET payload == h.token.payload
                  user == AuthUser(payload.sub, payload.role, payload.scopes)
              IN  IF payload.has_exp /\ payload.exp < t THEN Fail(ErrJwtExpired)
                  ELSE IF ~HasRequiredScopes(user.scopes, required)
                  THEN AuthResult(FALSE, NoUser, ErrInsufficient(required))
                  ELSE Ok(user)

\* _authenticate_api_token without its "except Exception" clause
AuthenticateApiTokenDataNoCatch(token_data, required) ==
    IF token_data.kind = "raise" THEN Fail(ErrRaised)
    ELSE IF token_data.kind = "none" THEN Fail(ErrInvalidToken)
    ELSE LET j == JsonLoads(token_data) IN
         IF ~j.ok THEN Fail(ErrTokenFormat)
         ELSE IF ~j.is_object THEN Fail(ErrRaised)
         ELSE LET user == AuthUser(j.doc.id, j.doc.role, j.doc.scopes) IN
              IF ~HasRequiredScopes(user.scopes, required)
              THEN AuthResult(FALSE, NoUser, ErrInsufficient(required))
              ELSE Ok(user)

\* AuthMiddleware._authenticate_api_token from what await get_secret produced:
\* an exception of get_secret, or of user_data.get on a value that is not a
\* dict, is caught by "except Exception"
AuthenticateApiTokenData(token_data, required) ==
    IF token_data.kind = "raise" THEN Fail(ErrApiException)
    ELSE IF token_data.kind = "none" THEN Fail(ErrInvalidToken)
    ELSE LET j == JsonLoads(token_data) IN
         IF ~j.ok THEN Fail(ErrTokenFormat)
         ELSE IF ~j.is_object THEN Fail(ErrApiException)
         ELSE LET user == AuthUser(j.doc.id, j.doc.role, j.doc.scopes) IN
              IF ~HasRequiredScopes(user.scopes, required)
              THEN AuthResult(FALSE, NoUser, ErrInsufficient(required))
              ELSE Ok(user)

\* AuthMiddleware.authenticate from the JWT header on, once the API-token
\* path has not returned
JwtPhase(jwt_header, secret, required, t) ==
    IF jwt_header.present
    THEN LET r == AuthenticateJwtToken(StripBearer(jwt_header), secret, required, t) IN
         [evaluated |-> TRUE, res |-> r,
          auth |-> IF r.success THEN r ELSE Fail(ErrAuthFailed)]
    ELSE [evaluated |-> FALSE, res |-> NotRun, auth |-> Fail(ErrAuthFailed)]

\* authenticate returning the API-token failure instead of falling through
AfterApiTokenNoFallThrough(api_present, api_res, jwt_header, secret, required, t) ==
    IF api_present
    THEN [evaluated |-> FALSE, res |-> NotRun, auth |-> api_res]
    ELSE JwtPhase(jwt_header, secret, required, t)

\* AuthMiddleware.authenticate once the API-token path has run (api_res) or
\* was skipped for want of the header
AfterApiToken(api_present, api_res, jwt_header, secret, required, t) ==
    IF api_present /\ api_res.success
    THEN [evaluated |-> FALSE, res |-> NotRun, auth |-> api_res]
    ELSE JwtPhase(jwt_header, secret, required, t)

(***************************************************************************)
(* core/secrets.py: SecretsManager over the rows of the remote table.       *)
(***************************************************************************)
NoCreator == "<None>"
Creators == {NoCreator, "A"}
NoValue == "<None>"
\* the rows a request with the filter name=eq.name (and creator_id=eq.creator
\* when creator is truthy) selects
Matching(rows, name, creator) ==
    {r \in rows : r.name = name /\ (creator = NoCreator \/ r.creator = creator)}
\* the rows a list request selects
Listed(rows, creator) ==
    {r \in rows : creator = NoCreator \/ r.creator = creator}
\* a Secret object, or None
NoneSecret == [some |-> FALSE, raised |-> FALSE, id |-> 0, creator |-> NoCreator,
               value |-> NoText]
Secret(id, creator, value) ==
    [some |-> TRUE, raised |-> FALSE, id |-> id, creator |-> creator, value |-> value]
RaisedSecret == [NoneSecret EXCEPT !.raised = TRUE]

\* get_secret with no try around its request and its decrypt
GetSecretNoCatch(response, key, request_ok) ==
    IF ~request_ok THEN RaisedSecret
    ELSE IF response = {} THEN NoneSecret
    ELSE LET row == CHOOSE r \in response : TRUE
             d == Decrypt(key, row.value)
         IN  IF ~d.ok THEN RaisedSecret ELSE Secret(row.id, row.creator, d.text)

\* SecretsManager.get_secret from the outcome of its GET: response is empty
\* or holds the row that came first
GetSecret(response, key, request_ok) ==
    IF ~request_ok THEN NoneSecret
    ELSE IF response = {} THEN NoneSecret
    ELSE LET row == CHOOSE r \in response : TRUE
             d == Decrypt(key, row.value)
         IN  IF ~d.ok THEN NoneSecret ELSE Secret(row.id, row.creator, d.text)

\* the orders in which the store can return the rows S
Orderings(S) ==
    {f \in [1..Cardinality(S) -> S] : \A i, j \in DOMAIN f : i # j => f[i] # f[j]}

\* list_secrets that gives up at the first row it cannot decrypt
RECURSIVE ListSecretsStopping(_, _)
ListSecretsStopping(response, key) ==
    IF response = <<>> THEN <<>>
    ELSE LET secret_data == Head(response)
             d == Decrypt(key, secret_data["value"])
         IN  IF ~d.ok THEN <<>>
             ELSE <<Secret(secret_data["id"], secret_data["creator"], d.text)>>
                  \o ListSecretsStopping(Tail(response), key)

\* the loop of list_secrets over the rows of the response
RECURSIVE ListSecrets(_, _)
ListSecrets(response, key) ==
    IF response = <<>> THEN <<>>
    ELSE LET secret_data == Head(response)
             d == Decrypt(key, secret_data["value"])
         IN  (IF ~d.ok THEN <<>>
              ELSE <<Secret(secret_data["id"], secret_data["creator"], d.text)>>)
             \o ListSecrets(Tail(response), key)

\* module-level set_secret: secret is not None
SetSecretModule(secret) == secret.some

(***************************************************************************)
(* core/auth_flow.py: PrivyAuthFlow.refresh_token and logout.               *)
(***************************************************************************)
token_expiration == 3600
RefreshScope == "auth:refresh"
ErrInvalidRefresh == "Invalid refresh token"
ErrRefreshFormat == "Invalid refresh token data format"
ErrRefreshExpired == "Refresh token has expired"
ErrRefreshScope == "Invalid refresh token: Missing required scope"
ErrRefreshException == "Error refreshing token: <exception>"
ErrLogoutFailed == "Failed to revoke refresh token"
ErrLogoutException == "Error logging out: <exception>"

\* AuthFlowResult
ValueErrorJwtSecret == "ValueError: JWT secret is not configured."
refresh_token_expiration == 2592000
ErrVerifyNoUser == "Invalid token: User ID not found in response"
ErrVerifyException == "Error verifying token: <exception>"
\* _create_auth_user_from_privy: the role is "user", so the scopes are
\* ["mcp:access"]
PrivyRole == "user"
PrivyScopes == IF PrivyRole = "admin" THEN {"mcp:access", "mcp:admin"} ELSE {"mcp:access"}
AuthFlowResult(success, user, token, refresh_token, expires_in, error) ==
    [success |-> success, user |-> user, token |-> token,
     refresh_token |-> refresh_token, expires_in |-> expires_in, error |-> error]
FlowFail(msg) == AuthFlowResult(FALSE, NoUser, NoJwt, NoToken, NoneInt, msg)

\* refresh_token with the expiry test "expires_at <= time.time()"
RefreshResultExpiresInclusive(token_data, refresh_token, secret, t) ==
    IF token_data.kind = "raise" THEN FlowFail(ErrRefreshException)
    ELSE IF token_data.kind = "none" THEN FlowFail(ErrInvalidRefresh)
    ELSE LET j == JsonLoads(token_data) IN
         IF ~j.ok THEN FlowFail(ErrRefreshFormat)
         ELSE IF ~j.is_object THEN FlowFail(ErrRefreshException)
         ELSE IF j.doc.has_expires_at /\ j.doc.expires_at <= t
         THEN FlowFail(ErrRefreshExpired)
         ELSE IF RefreshScope \notin j.doc.scopes THEN FlowFail(ErrRefreshScope)
         ELSE LET user == AuthUser(j.doc.id, j.doc.role, j.doc.scopes)
                  c == CreateJwtToken(user.id, user.role, user.scopes \ {RefreshScope},
                                      <<token_expiration>>, secret, t)
              IN  IF ~c.ok THEN FlowFail(ErrRefreshException)
                  ELSE AuthFlowResult(TRUE, user, c.token, refresh_token,
                                      <<token_expiration>>, "")

\* PrivyAuthFlow.refresh_token from what await get_secret produced, at time t;
\* a value that is JSON but no object raises in the tests on it, and
\* create_jwt_token raises without a secret: both are caught
RefreshResult(token_data, refresh_token, secret, t) ==
    IF token_data.kind = "raise" THEN FlowFail(ErrRefreshException)
    ELSE IF token_data.kind = "none" THEN FlowFail(ErrInvalidRefresh)
    ELSE LET j == JsonLoads(token_data) IN
         IF ~j.ok THEN FlowFail(ErrRefreshFormat)
         ELSE IF ~j.is_object THEN FlowFail(ErrRefreshException)
         ELSE IF j.doc.has_expires_at /\ j.doc.expires_at < t
         THEN FlowFail(ErrRefreshExpired)
         ELSE IF RefreshScope \notin j.doc.scopes THEN FlowFail(ErrRefreshScope)
         ELSE LET user == AuthUser(j.doc.id, j.doc.role, j.doc.scopes)
                  c == CreateJwtToken(user.id, user.role, user.scopes \ {RefreshScope},
                                      <<token_expiration>>, secret, t)
              IN  IF ~c.ok THEN FlowFail(ErrRefreshException)
                  ELSE AuthFlowResult(TRUE, user, c.token, refresh_token,
                                      <<token_expiration>>, "")

\* logout reporting success whatever revoke_api_token returned
LogoutResultAlwaysOk(revoke) ==
    IF revoke = "raise" THEN FlowFail(ErrLogoutException)
    ELSE AuthFlowResult(TRUE, NoUser, NoJwt, NoToken, NoneInt, "")

\* PrivyAuthFlow.logout from what await revoke_api_token produced: "true",
\* "false", or "raise" (the store is not configured)
LogoutResult(revoke) ==
    IF revoke = "raise" THEN FlowFail(ErrLogoutException)
    ELSE IF revoke = "false" THEN FlowFail(ErrLogoutFailed)
    ELSE AuthFlowResult(TRUE, NoUser, NoJwt, NoToken, NoneInt, "")

(***************************************************************************)
(* require_auth.wrapper after authenticate returned.                        *)
(***************************************************************************)
NoError == <<"", <<>>>>
\* the for loop over the guard's scopes, from index i: the first scope the
\* user lacks, or <<>>
RECURSIVE FirstMissing(_, _, _)
FirstMissing(scopes, i, user) ==
    IF i > Len(scopes) THEN <<>>
    ELSE IF scopes[i] \notin user.scopes /\ "*" \notin user.scopes THEN <<scopes[i]>>
    ELSE FirstMissing(scopes, i + 1, user)

\* the wrapper without its loop over the guard's scopes
GuardAfterAuthNoScopes(auth_result, scopes) ==
    IF ~auth_result.success
    THEN [invoked |-> FALSE, ctx_user |-> NoUser, ret |-> auth_result.error]
    ELSE [invoked |-> TRUE, ctx_user |-> auth_result.user, ret |-> NoError]

\* the wrapper naming the last scope the principal lacks, not the first
GuardAfterAuthLastMissing(auth_result, scopes) ==
    IF ~auth_result.success
    THEN [invoked |-> FALSE, ctx_user |-> NoUser, ret |-> auth_result.error]
    ELSE LET lacks == {i \in 1..Len(scopes) :
                         scopes[i] \notin auth_result.user.scopes
                         /\ "*" \notin auth_result.user.scopes}
         IN  IF lacks # {}
             THEN [invoked |-> FALSE, ctx_user |-> NoUser,
                   ret |-> <<"Insufficient permissions. Required scope: ",
                             <<scopes[CHOOSE i \in lacks : \A k \in lacks : k <= i]>>>>]
             ELSE [invoked |-> TRUE, ctx_user |-> auth_result.user, ret |-> NoError]

\* require_auth.wrapper from the test of auth_result on
GuardAfterAuth(auth_result, scopes) ==
    IF ~auth_result.success
    THEN [invoked |-> FALSE, ctx_user |-> NoUser, ret |-> auth_result.error]
    ELSE LET missing == FirstMissing(scopes, 1, auth_result.user) IN
         IF missing # <<>>
         THEN [invoked |-> FALSE, ctx_user |-> NoUser,
               ret |-> <<"Insufficient permissions. Required scope: ", missing>>]
         ELSE [invoked |-> TRUE, ctx_user |-> auth_result.user, ret |-> NoError]

VARIABLES
    now,                          \* time.time()
    store,                        \* the secrets table: name "api_token:" + t -> row
    issued,                       \* tokens create_api_token has returned
    api_token_cache,              \* AuthMiddleware.api_token_cache
    api_token_cache_timestamps,   \* AuthMiddleware.api_token_cache_timestamps
    required_scopes,              \* AuthMiddleware.required_scopes
    skip_auth,                    \* AuthMiddleware.skip_auth
    jwt_secret,                   \* AuthMiddleware.jwt_secret
    attached,                     \* the server has an _auth_middleware
    reqs,                         \* the guarded calls suspended in authenticate (a bag)
    obs,                          \* the call that returned in the last step
    issuedArgs,                   \* history: what each token was issued with
    revokedAt,                    \* history: when a call of revoke_api_token(t) itself first succeeded
    missStart,                    \* history: start of the last resolution of t that
                                  \* read the store and succeeded
    probe,                        \* a pure function applied to drawn inputs
    refreshing,                   \* the refresh_token call suspended at get_secret
    flow,                         \* the AuthFlowResult last returned
    table,                        \* the rows of the remote secrets table
    next_id,                      \* the id the table assigns to the next row
    ops,                          \* set_secret calls between check and write (a bag)
    ret,                          \* the SecretsManager call that returned in the last step
    scen,                         \* history, kept until a failure: progress of
                                  \* set(k, v1); set(k, v2)
    lastWrite,                    \* history, kept until a failure: the value written
                                  \* last, if any row has it
    faulty                        \* history: a request or a decryption has failed

serverVars == <<now, store, issued, api_token_cache, api_token_cache_timestamps,
                required_scopes, skip_auth, jwt_secret, attached, reqs, obs,
                issuedArgs, revokedAt, missStart>>
flowVars == <<refreshing, flow>>
clientVars == <<table, next_id, ops, ret, scen, lastWrite, faulty>>
vars == <<serverVars, probe, flowVars, clientVars>>

ProbeIdle == [pc |-> "idle", scopes |-> {}, required |-> <<>>, out |-> FALSE]

(***************************************************************************)
(* Calls.                                                                   *)
(***************************************************************************)
Idle == [pc |-> "idle", api |-> NoToken, jwt |-> NoHeader, scopes |-> <<>>,
         start |-> 0, revoked |-> FALSE, stored |-> FALSE, near |-> FALSE,
         store_ok |-> FALSE, lookup |-> "", resp |-> NoText]

NoObs == [kind |-> "none", api |-> NoToken, jwt |-> NoHeader,
          guard_skip |-> FALSE, scopes |-> <<>>,
          auth_called |-> FALSE, hit |-> FALSE, looked_up |-> FALSE,
          store_ok |-> FALSE, lookup |-> "",
          api_res |-> NotRun, jwt_evaluated |-> FALSE, jwt_res |-> NotRun,
          auth |-> NotRun,
          invoked |-> FALSE, ctx_user |-> NoUser, ret |-> NoError,
          start |-> 0, revoked |-> FALSE, stored |-> FALSE, near |-> FALSE]

\* what the lookup of a row met: the request failed, there was no row, the
\* row did not decrypt under the process's key, or the kind of its text
LookupOutcome(st, name, request_ok) ==
    IF ~request_ok THEN "error"
    ELSE IF st[name].kind = "none" THEN "absent"
    ELSE LET d == Decrypt(EncKey, st[name]) IN
         IF ~d.ok THEN "undecryptable" ELSE d.text.kind

\* the cache test of _authenticate_api_token with <= for <
CacheHitInclusive(token, t) ==
    /\ token \in DOMAIN api_token_cache
    /\ t - api_token_cache_timestamps[token] <= api_token_cache_ttl

\* _authenticate_api_token: the token is cached and the entry still valid
CacheHit(token, t) ==
    /\ token \in DOMAIN api_token_cache
    /\ t - (IF token \in DOMAIN api_token_cache_timestamps
            THEN api_token_cache_timestamps[token] ELSE 0) < api_token_cache_ttl

\* history taken when a resolution of token starts
Revoked(token) == token \in Tokens /\ revokedAt[token] >= 0
\* create_api_token(...) returned token and its row reached the store
Stored(token) == token \in issued /\ issuedArgs[token].write_ok
Near(token) ==
    /\ token \in Tokens
    /\ missStart[token] >= 0
    /\ now - missStart[token] < api_token_cache_ttl

\* require_auth.wrapper returning without calling authenticate
Unguarded(guard_skip, scopes, api, jwt) ==
    [NoObs EXCEPT !.kind = "done", !.api = api, !.jwt = jwt,
                  !.guard_skip = guard_skip, !.scopes = scopes,
                  !.invoked = TRUE, !.start = now]

\* require_auth.wrapper once authenticate has returned auth
Guarded(o, auth) ==
    LET g == GuardAfterAuth(auth, o.scopes) IN
    [o EXCEPT !.kind = "done", !.auth_called = TRUE, !.auth = auth,
              !.invoked = g.invoked, !.ctx_user = g.ctx_user, !.ret = g.ret]

\* what create_api_token was called with, and whether its row was stored
NoArgs == [user_id |-> "<none>", role |-> NoRole, scopes |-> {},
           expires_in |-> NoneInt, at |-> 0, write_ok |-> FALSE, session |-> NoJwt]

\* no SecretsManager call has just returned; with a call that returned go
\* its arguments, what its request met, and what it returned: a Secret or
\* None (get, set), a bool (delete), the decrypted rows (list)
NoRet == [kind |-> "none", name |-> "", creator |-> NoCreator, key |-> "",
          request_ok |-> FALSE, lookup |-> "", secret |-> NoneSecret,
          deleted |-> FALSE, response |-> <<>>, listed |-> <<>>, skipped |-> 0]
NoScen == [stage |-> 0, creator |-> NoCreator, key |-> "", id1 |-> 0, id2 |-> 0,
           unique |-> TRUE]

\* no refresh_token call is suspended
NoRefresh == [pc |-> "idle", arg |-> NoToken, lookup |-> "", resp |-> NoText]
\* no AuthFlowResult yet; with a result go the call it answers (kind, arg),
\* what its store request met and produced, and time.time() at its tests
NoFlow == [kind |-> "none", arg |-> NoToken, lookup |-> "", resp |-> NoText,
           revoke |-> "", at |-> 0, res |-> FlowFail("")]

InitServer(required, skip, secret, att) ==
    /\ now = 0
    /\ store = [t \in Tokens |-> NoRec]
    /\ issued = {}
    /\ api_token_cache = <<>>
    /\ api_token_cache_timestamps = <<>>
    /\ required_scopes = required
    /\ skip_auth = skip
    /\ jwt_secret = secret
    /\ attached = att
    /\ reqs = EmptyBag
    /\ obs = NoObs
    /\ issuedArgs = [t \in Tokens |-> NoArgs]
    /\ revokedAt = [t \in Tokens |-> -1]
    /\ missStart = [t \in Tokens |-> -1]
    /\ refreshing = NoRefresh
    /\ flow = NoFlow
    /\ table = {}
    /\ next_id = 1
    /\ ops = EmptyBag
    /\ ret = NoRet
    /\ scen = NoScen
    /\ lastWrite = NoValue
    /\ faulty = FALSE

config == <<required_scopes, skip_auth, jwt_secret, attached>>

\* the clock advances
Tick ==
    /\ now + TimeStep <= MaxTime
    /\ now' = now + TimeStep
    /\ obs' = NoObs
    /\ UNCHANGED <<store, issued, api_token_cache, api_token_cache_timestamps,
                   config, reqs, issuedArgs, revokedAt, missStart, probe, refreshing, clientVars>>
    /\ flow' = NoFlow

\* secrets.token_urlsafe(32): a token no one holds yet
FreshToken(pool) ==
    pool[CHOOSE i \in 1..Len(pool) :
            /\ pool[i] \notin issued
            /\ \A j \in 1..(i - 1) : pool[j] \in issued]

\* create_api_token(user_id, role=role, scopes=scopes, expires_in=expires_in);
\* write_ok is whether set_secret stored the row (its result is not read);
\* pool is the token strings token_urlsafe can still return
CreateApiToken(pool, user_id, role, scopes, expires_in, write_ok) ==
    /\ \E i \in 1..Len(pool) : pool[i] \notin issued
    /\ LET token == FreshToken(pool)
           token_data == TokenData(user_id, role, scopes, expires_in, now)
       IN  /\ store' = IF write_ok
                       THEN [store EXCEPT ![token] = Encrypt(EncKey, JsonDumps(token_data))]
                       ELSE store
           /\ issued' = issued \cup {token}
           /\ issuedArgs' = [issuedArgs EXCEPT ![token] =
                                [user_id |-> user_id, role |-> role, scopes |-> scopes,
                                 expires_in |-> expires_in, at |-> now,
                                 write_ok |-> write_ok, session |-> NoJwt]]
    /\ obs' = NoObs
    /\ UNCHANGED <<now, api_token_cache, api_token_cache_timestamps, config, reqs,
                   revokedAt, missStart, probe, refreshing, clientVars>>
    /\ flow' = NoFlow

\* revoke_api_token deleting under a name that is not the token's row
RevokeApiTokenWrongKey(token, request_ok) ==
    /\ token \in issued
    /\ store' = store
    /\ revokedAt' = IF request_ok /\ revokedAt[token] < 0
                    THEN [revokedAt EXCEPT ![token] = now] ELSE revokedAt
    /\ obs' = NoObs
    /\ UNCHANGED <<now, issued, api_token_cache, api_token_cache_timestamps,
                   required_scopes, skip_auth, jwt_secret, attached,
                   reqs, issuedArgs, missStart, probe, refreshing, clientVars>>
    /\ flow' = NoFlow

\* revoke_api_token(token): delete_secret answers True after the DELETE, or
\* False when the request failed
RevokeApiToken(token, request_ok) ==
    /\ token \in issued
    /\ store' = IF request_ok THEN [store EXCEPT ![token] = NoRec] ELSE store
    /\ revokedAt' = IF request_ok /\ revokedAt[token] < 0
                    THEN [revokedAt EXCEPT ![token] = now] ELSE revokedAt
    /\ obs' = NoObs
    /\ UNCHANGED <<now, issued, api_token_cache, api_token_cache_timestamps, config,
                   reqs, issuedArgs, missStart, probe, refreshing, clientVars>>
    /\ flow' = NoFlow

\* a guarded call arrives: require_auth.wrapper and authenticate up to the
\* first suspension (await get_secret) or to the return
Start(limit, guard_skip, scopes, api, jwt) ==
    /\ BagCardinality(reqs) < limit
    /\ LET o == [NoObs EXCEPT !.api = api, !.jwt = jwt, !.scopes = scopes,
                              !.start = now, !.revoked = Revoked(api), !.stored = Stored(api),
                              !.near = Near(api)]
       IN  IF guard_skip \/ ~attached
           THEN obs' = Unguarded(guard_skip, scopes, api, jwt) /\ reqs' = reqs
           ELSE IF skip_auth
           THEN obs' = Guarded(o, Ok(DevUser)) /\ reqs' = reqs
           ELSE IF api # NoToken /\ CacheHit(api, now)
           THEN LET api_res == Ok(api_token_cache[api])
                    j == AfterApiToken(TRUE, api_res, jwt, jwt_secret, required_scopes, now)
                IN  /\ obs' = Guarded([o EXCEPT !.hit = TRUE, !.api_res = api_res,
                                                !.jwt_evaluated = j.evaluated,
                                                !.jwt_res = j.res], j.auth)
                    /\ reqs' = reqs
           ELSE IF api # NoToken
           THEN /\ obs' = NoObs
                /\ reqs' = reqs (+) SetToBag({
                              [Idle EXCEPT !.pc = "wait_store", !.api = api, !.jwt = jwt,
                                           !.scopes = scopes, !.start = now,
                                           !.revoked = Revoked(api), !.stored = Stored(api), !.near = Near(api)]})
           ELSE LET j == AfterApiToken(FALSE, NotRun, jwt, jwt_secret, required_scopes, now) IN
                /\ obs' = Guarded([o EXCEPT !.jwt_evaluated = j.evaluated,
                                            !.jwt_res = j.res], j.auth)
                /\ reqs' = reqs
    /\ UNCHANGED <<now, store, issued, api_token_cache, api_token_cache_timestamps,
                   config, issuedArgs, revokedAt, missStart, probe, refreshing, clientVars>>
    /\ flow' = NoFlow

\* the lookup of call q, deleting a row it cannot decrypt
StoreRespondEvicting(q, request_ok) ==
    /\ BagIn(q, reqs)
    /\ q.pc = "wait_store"
    /\ reqs' = (reqs (-) SetToBag({q})) (+) SetToBag({
                  [q EXCEPT !.pc = "wait_resume",
                            !.store_ok = request_ok,
                            !.lookup = LookupOutcome(store, q.api, request_ok),
                            !.resp = IF request_ok THEN GetSecretValue(store, q.api)
                                     ELSE NoText]})
    /\ store' = IF request_ok /\ LookupOutcome(store, q.api, request_ok) = "undecryptable"
                THEN [store EXCEPT ![q.api] = NoRec] ELSE store
    /\ obs' = NoObs
    /\ UNCHANGED <<now, issued, api_token_cache, api_token_cache_timestamps,
                   config, issuedArgs, revokedAt, missStart, probe, refreshing, clientVars>>
    /\ flow' = NoFlow

\* the store serves the GET of get_secret("api_token:" + token) of call q, or
\* the request fails; either way get_secret returns a value or None
StoreRespond(q, request_ok) ==
    /\ BagIn(q, reqs)
    /\ q.pc = "wait_store"
    /\ reqs' = (reqs (-) SetToBag({q})) (+) SetToBag({
                  [q EXCEPT !.pc = "wait_resume",
                            !.store_ok = request_ok,
                            !.lookup = LookupOutcome(store, q.api, request_ok),
                            !.resp = IF request_ok THEN GetSecretValue(store, q.api)
                                     ELSE NoText]})
    /\ obs' = NoObs
    /\ UNCHANGED <<now, store, issued, api_token_cache, api_token_cache_timestamps,
                   config, issuedArgs, revokedAt, missStart, probe, refreshing, clientVars>>
    /\ flow' = NoFlow

\* get_secret of call q finds the store not configured: get_secrets_manager
\* raises ValueError out of SecretsManager.from_env and no request is made
StoreUnconfigured(q) ==
    /\ BagIn(q, reqs)
    /\ q.pc = "wait_store"
    /\ reqs' = (reqs (-) SetToBag({q})) (+) SetToBag({
                  [q EXCEPT !.pc = "wait_resume", !.store_ok = FALSE,
                            !.lookup = "unconfigured", !.resp = Raised]})
    /\ obs' = NoObs
    /\ UNCHANGED <<now, store, issued, api_token_cache, api_token_cache_timestamps,
                   config, issuedArgs, revokedAt, missStart, probe, refreshing, clientVars>>
    /\ flow' = NoFlow

\* set_secret("api_token:" + token, value) by a client whose Fernet key is
\* key: the row of the token now holds that value under that key
PutRow(token, key, text) ==
    /\ token \in Tokens
    /\ store' = [store EXCEPT ![token] = Encrypt(key, text)]
    /\ obs' = NoObs
    /\ UNCHANGED <<now, issued, api_token_cache, api_token_cache_timestamps,
                   config, reqs, issuedArgs, revokedAt, missStart, probe, refreshing, clientVars>>
    /\ flow' = NoFlow

\* _authenticate_api_token of call q resumes with the value; authenticate and
\* the wrapper run to their return
Resume(q) ==
    /\ BagIn(q, reqs)
    /\ q.pc = "wait_resume"
    /\ LET api_res == AuthenticateApiTokenData(q.resp, required_scopes)
           j == AfterApiToken(TRUE, api_res, q.jwt, jwt_secret, required_scopes, now)
           o == [NoObs EXCEPT !.api = q.api, !.jwt = q.jwt, !.scopes = q.scopes,
                              !.start = q.start, !.revoked = q.revoked, !.stored = q.stored,
                              !.near = q.near,
                              !.looked_up = TRUE, !.store_ok = q.store_ok,
                              !.lookup = q.lookup,
                              !.api_res = api_res]
       IN  /\ IF api_res.success
              THEN /\ api_token_cache' =
                         [t \in DOMAIN api_token_cache \cup {q.api} |->
                             IF t = q.api THEN api_res.user ELSE api_token_cache[t]]
                   /\ api_token_cache_timestamps' =
                         [t \in DOMAIN api_token_cache_timestamps \cup {q.api} |->
                             IF t = q.api THEN now ELSE api_token_cache_timestamps[t]]
                   /\ missStart' = [missStart EXCEPT ![q.api] = q.start]
              ELSE UNCHANGED <<api_token_cache, api_token_cache_timestamps, missStart>>
           /\ obs' = Guarded([o EXCEPT !.jwt_evaluated = j.evaluated,
                                       !.jwt_res = j.res], j.auth)
    /\ reqs' = reqs (-) SetToBag({q})
    /\ UNCHANGED <<now, store, issued, config, issuedArgs, revokedAt, probe, refreshing, clientVars>>
    /\ flow' = NoFlow

\* a call of create_jwt_token(user_id, role=role, scopes=scopes,
\* expires_in=expires_in) under the configured JWT_SECRET: flow holds the
\* token it returned, or the ValueError it raised
CreateJwtTokenCall(user_id, role, scopes, expires_in) ==
    /\ LET r == CreateJwtToken(user_id, role, scopes, expires_in, jwt_secret, now) IN
         flow' = [NoFlow EXCEPT
                    !.kind = "create_jwt_token", !.at = now,
                    !.res = AuthFlowResult(r.ok, AuthUser(user_id, role, scopes), r.token,
                                           NoToken, expires_in,
                                           IF r.ok THEN "" ELSE ValueErrorJwtSecret)]
    /\ UNCHANGED <<now, store, issued, api_token_cache, api_token_cache_timestamps, config,
                   reqs, obs, issuedArgs, revokedAt, missStart, probe, refreshing, clientVars>>

\* verify_token(token): what the Privy client answered (privy), then
\* create_jwt_token, then create_api_token for the refresh token, whose
\* set_secret stores the row ("ok"), fails ("error"), or finds the store not
\* configured and raises ("unconfigured")
VerifyToken(pool, user_id, privy, write) ==
    /\ \E i \in 1..Len(pool) : pool[i] \notin issued
    /\ LET user == AuthUser(user_id, PrivyRole, PrivyScopes)
           c == CreateJwtToken(user.id, user.role, user.scopes, <<token_expiration>>,
                               jwt_secret, now)
           refresh_token == FreshToken(pool)
           token_data == TokenData(user.id, user.role, {RefreshScope},
                                   <<refresh_token_expiration>>, now)
           returned == privy = "ok" /\ c.ok /\ write # "unconfigured"
       IN  /\ flow' = [NoFlow EXCEPT
                         !.kind = "verify", !.at = now,
                         !.res = IF privy = "no_user" THEN FlowFail(ErrVerifyNoUser)
                                 ELSE IF ~returned THEN FlowFail(ErrVerifyException)
                                 ELSE AuthFlowResult(TRUE, user, c.token, refresh_token,
                                                     <<token_expiration>>, "")]
           /\ store' = IF returned /\ write = "ok"
                       THEN [store EXCEPT ![refresh_token] =
                                Encrypt(EncKey, JsonDumps(token_data))]
                       ELSE store
           /\ issued' = IF returned THEN issued \cup {refresh_token} ELSE issued
           /\ issuedArgs' = IF returned
                            THEN [issuedArgs EXCEPT ![refresh_token] =
                                    [user_id |-> user.id, role |-> user.role,
                                     scopes |-> {RefreshScope},
                                     expires_in |-> <<refresh_token_expiration>>,
                                     at |-> now, write_ok |-> write = "ok",
                                     session |-> c.token]]
                            ELSE issuedArgs
    /\ obs' = NoObs
    /\ UNCHANGED <<now, api_token_cache, api_token_cache_timestamps, config, reqs,
                   revokedAt, missStart, probe, refreshing, clientVars>>

\* refresh_token(token) up to its await: get_secret("api_token:" + token)
\* makes its request and the store answers ("ok"), the request fails
\* ("error"), or the store is not configured ("unconfigured")
RefreshStart(token, outcome) ==
    /\ refreshing.pc = "idle"
    /\ refreshing' =
          [pc |-> "wait", arg |-> token,
           lookup |-> IF outcome = "unconfigured" THEN "unconfigured"
                      ELSE LookupOutcome(store, token, outcome = "ok"),
           resp |-> IF outcome = "unconfigured" THEN Raised
                    ELSE IF outcome = "ok" THEN GetSecretValue(store, token)
                    ELSE NoText]
    /\ flow' = NoFlow
    /\ UNCHANGED <<serverVars, probe, clientVars>>

\* refresh_token with a row-deleting rotation on success
RefreshResumeRotating ==
    /\ refreshing.pc = "wait"
    /\ LET r == RefreshResult(refreshing.resp, refreshing.arg, jwt_secret, now) IN
         /\ flow' = [kind |-> "refresh", arg |-> refreshing.arg,
                     lookup |-> refreshing.lookup, resp |-> refreshing.resp,
                     revoke |-> "", at |-> now, res |-> r]
         /\ store' = IF r.success THEN [store EXCEPT ![refreshing.arg] = NoRec] ELSE store
    /\ refreshing' = NoRefresh
    /\ UNCHANGED <<now, issued, api_token_cache, api_token_cache_timestamps, config,
                   reqs, obs, issuedArgs, revokedAt, missStart, probe, clientVars>>

\* refresh_token resumes with what get_secret produced and runs to its return
RefreshResume ==
    /\ refreshing.pc = "wait"
    /\ flow' = [kind |-> "refresh", arg |-> refreshing.arg,
                lookup |-> refreshing.lookup, resp |-> refreshing.resp,
                revoke |-> "", at |-> now,
                res |-> RefreshResult(refreshing.resp, refreshing.arg, jwt_secret, now)]
    /\ refreshing' = NoRefresh
    /\ UNCHANGED <<serverVars, probe, clientVars>>

\* what delete_secret, and so revoke_api_token, produces for each outcome of
\* its DELETE request: True whether or not a row matched
DeleteSecretResult(outcome) ==
    IF outcome = "unconfigured" THEN "raise"
    ELSE IF outcome = "ok" THEN "true" ELSE "false"

\* logout that answers from revoke_api_token and leaves the row in the store
LogoutKeepingRow(token, outcome) ==
    /\ token \in Tokens
    /\ LET r == DeleteSecretResult(outcome) IN
         /\ flow' = [kind |-> "logout", arg |-> token,
                     lookup |-> IF store[token].kind = "none" THEN "absent" ELSE "present",
                     resp |-> NoText, revoke |-> r, at |-> now,
                     res |-> LogoutResult(r)]
         /\ store' = store
    /\ UNCHANGED <<now, issued, api_token_cache, api_token_cache_timestamps, config,
                   reqs, obs, issuedArgs, revokedAt, missStart, probe, refreshing, clientVars>>

\* logout(token): revoke_api_token(token), then the result
Logout(token, outcome) ==
    /\ token \in Tokens
    /\ LET r == DeleteSecretResult(outcome) IN
         /\ flow' = [kind |-> "logout", arg |-> token,
                     lookup |-> IF store[token].kind = "none" THEN "absent" ELSE "present",
                     resp |-> NoText, revoke |-> r, at |-> now,
                     res |-> LogoutResult(r)]
         /\ store' = IF outcome = "ok" THEN [store EXCEPT ![token] = NoRec] ELSE store
    /\ UNCHANGED <<now, issued, api_token_cache, api_token_cache_timestamps, config,
                   reqs, obs, issuedArgs, revokedAt, missStart, probe, refreshing, clientVars>>

\* what the GET of a lookup can carry first: nothing, or any matching row
\* (the request states no order)
Responses(name, creator) ==
    IF Matching(table, name, creator) = {} THEN {{}}
    ELSE {{r} : r \in Matching(table, name, creator)}
\* which branch a lookup took
GetOutcome(response, key, request_ok) ==
    IF ~request_ok THEN "error"
    ELSE IF response = {} THEN "absent"
    ELSE IF \E r \in response : ~Decrypt(key, r.value).ok THEN "undecryptable"
    ELSE "found"

\* SecretsManager.get_secret(name, creator) by a client whose key is key
ClientGet(name, creator, key, request_ok) ==
    /\ \E response \in Responses(name, creator) :
          /\ ret' = [NoRet EXCEPT !.kind = "get", !.name = name, !.creator = creator,
                                  !.key = key, !.request_ok = request_ok,
                                  !.lookup = GetOutcome(response, key, request_ok),
                                  !.secret = GetSecret(response, key, request_ok)]
          /\ faulty' = (faulty \/ GetOutcome(response, key, request_ok)
                                    \in {"error", "undecryptable"})
    /\ scen' = IF faulty' THEN NoScen ELSE scen
    /\ lastWrite' = IF faulty' THEN NoValue ELSE lastWrite
    /\ UNCHANGED <<serverVars, probe, flowVars, table, next_id, ops>>

\* the calls in flight, now known to have run beside another call
Overlapped(b) ==
    LET S == BagToSet(b)
        n(x) == IF x \in S THEN b[x] ELSE 0
    IN  [t \in {[x EXCEPT !.alone = FALSE] : x \in S} |->
            n(t) + n([t EXCEPT !.alone = TRUE])]

\* set_secret(name, value, creator) up to the answer of its existence check
SetCheck(limit, name, value, creator, key, request_ok) ==
    /\ BagCardinality(ops) < limit
    /\ \E response \in Responses(name, creator) :
          /\ ops' = Overlapped(ops) (+) SetToBag({
                       [name |-> name, value |-> value, creator |-> creator, key |-> key,
                        existing |-> GetSecret(response, key, request_ok),
                        check |-> GetOutcome(response, key, request_ok),
                        matches |-> Cardinality(Matching(table, name, creator)),
                        alone |-> ops = EmptyBag]})
          /\ faulty' = (faulty \/ GetOutcome(response, key, request_ok)
                                    \in {"error", "undecryptable"})
    /\ ret' = NoRet
    /\ scen' = IF faulty' THEN NoScen ELSE scen
    /\ lastWrite' = IF faulty' THEN NoValue ELSE lastWrite
    /\ UNCHANGED <<serverVars, probe, flowVars, table, next_id>>

\* history kept by a set that returned
ScenAfterSet(op, secret, request_ok) ==
    LET clean == /\ op.alone /\ request_ok /\ secret.some /\ ~faulty
                 /\ op.check \in {"found", "absent"}
    IN  IF clean /\ op.value = "v1"
        THEN [stage |-> 1, creator |-> op.creator, key |-> op.key,
              id1 |-> secret.id, id2 |-> 0, unique |-> op.matches <= 1]
        ELSE IF /\ clean /\ op.value = "v2" /\ scen.stage = 1
                /\ scen.creator = op.creator /\ scen.key = op.key
        THEN [scen EXCEPT !.stage = 2, !.id2 = secret.id,
                          !.unique = scen.unique /\ op.matches <= 1]
        ELSE NoScen

\* set_secret from its PATCH or POST to its return
SetWrite(op, request_ok) ==
    /\ BagIn(op, ops)
    /\ LET encrypted_value == Encrypt(op.key, RawText(op.value)) IN
       IF op.existing.some
       THEN LET hit == {r \in table : r.id = op.existing.id}
                secret == IF request_ok /\ hit # {}
                          THEN Secret(op.existing.id, (CHOOSE r \in hit : TRUE).creator,
                                      encrypted_value)
                          ELSE NoneSecret
            IN  /\ table' = IF request_ok
                            THEN (table \ hit) \cup
                                 {[r EXCEPT !.value = encrypted_value] : r \in hit}
                            ELSE table
                /\ next_id' = next_id
                /\ lastWrite' = IF faulty \/ ~request_ok THEN NoValue
                                 ELSE IF secret.some THEN op.value ELSE lastWrite
                /\ ret' = [NoRet EXCEPT !.kind = "set", !.name = op.name,
                                        !.creator = op.creator, !.key = op.key,
                                        !.request_ok = request_ok, !.lookup = op.check,
                                        !.secret = secret]
                /\ scen' = ScenAfterSet(op, secret, request_ok)
       ELSE LET secret == IF request_ok THEN Secret(next_id, op.creator, encrypted_value)
                          ELSE NoneSecret
            IN  /\ request_ok => next_id <= MaxId
                /\ table' = IF request_ok
                            THEN table \cup {[id |-> next_id, name |-> op.name,
                                              creator |-> op.creator,
                                              value |-> encrypted_value]}
                            ELSE table
                /\ next_id' = IF request_ok THEN next_id + 1 ELSE next_id
                /\ lastWrite' = IF faulty \/ ~request_ok THEN NoValue ELSE op.value
                /\ ret' = [NoRet EXCEPT !.kind = "set", !.name = op.name,
                                        !.creator = op.creator, !.key = op.key,
                                        !.request_ok = request_ok, !.lookup = op.check,
                                        !.secret = secret]
                /\ scen' = ScenAfterSet(op, secret, request_ok)
    /\ ops' = ops (-) SetToBag({op})
    /\ faulty' = (faulty \/ ~request_ok)
    /\ UNCHANGED <<serverVars, probe, flowVars>>

\* delete_secret answering by whether a row was there to delete
ClientDeleteCountsRows(name, creator, request_ok) ==
    /\ table' = IF request_ok THEN table \ Matching(table, name, creator) ELSE table
    /\ ret' = [NoRet EXCEPT !.kind = "delete", !.name = name, !.creator = creator,
                            !.request_ok = request_ok,
                            !.lookup = IF Matching(table, name, creator) = {}
                                       THEN "absent" ELSE "found",
                            !.deleted = request_ok /\ Matching(table, name, creator) # {}]
    /\ lastWrite' = NoValue
    /\ scen' = NoScen
    /\ faulty' = (faulty \/ ~request_ok)
    /\ UNCHANGED <<serverVars, probe, flowVars, next_id, ops>>

\* SecretsManager.delete_secret(name, creator)
ClientDelete(name, creator, request_ok) ==
    /\ table' = IF request_ok THEN table \ Matching(table, name, creator) ELSE table
    /\ ret' = [NoRet EXCEPT !.kind = "delete", !.name = name, !.creator = creator,
                            !.request_ok = request_ok,
                            !.lookup = IF Matching(table, name, creator) = {}
                                       THEN "absent" ELSE "found",
                            !.deleted = request_ok]
    /\ lastWrite' = NoValue
    /\ scen' = NoScen
    /\ faulty' = (faulty \/ ~request_ok)
    /\ UNCHANGED <<serverVars, probe, flowVars, next_id, ops>>

\* the name of the row of an API token
ApiTokenName(token) == "api_token:" \o token

\* revoke_api_token(token) as the request it makes: delete_secret of the
\* token's row, with no tenant
RevokeApiTokenRequest(token, request_ok) ==
    ClientDelete(ApiTokenName(token), NoCreator, request_ok)

\* SecretsManager.list_secrets(creator) by a client whose key is key
ClientList(creator, key, request_ok) ==
    /\ \E response \in (IF request_ok THEN Orderings(Listed(table, creator))
                         ELSE {<<>>}) :
          LET secrets == ListSecrets(response, key) IN
          /\ ret' = [NoRet EXCEPT
                       !.kind = "list", !.creator = creator, !.key = key,
                       !.request_ok = request_ok,
                       !.response = response,
                       !.listed = secrets,
                       !.skipped = Len(response) - Len(secrets)]
          /\ faulty' = (faulty \/ ~request_ok \/ Len(secrets) # Len(response))
    /\ scen' = IF faulty' THEN NoScen ELSE scen
    /\ lastWrite' = IF faulty' THEN NoValue ELSE lastWrite
    /\ UNCHANGED <<serverVars, probe, flowVars, table, next_id, ops>>

(***************************************************************************)
(* One Authenticator over time: API tokens only, concurrent calls.          *)
(***************************************************************************)
TimedTokens == <<"t1">>
TimedScopeSets == {{"read"}}
TimedExpiresIn == {NoneInt, <<TimeStep>>}

Init ==
    /\ InitServer(<<"read">>, FALSE, ServerSecret, TRUE)
    /\ probe = ProbeIdle

Next ==
    \/ Tick
    \/ \E sc \in TimedScopeSets, e \in TimedExpiresIn, w \in BOOLEAN :
          CreateApiToken(TimedTokens, "u1", NoRole, sc, e, w)
    \/ \E t \in Tokens, ok \in BOOLEAN : RevokeApiToken(t, ok)
    \/ \E i \in 1..Len(TimedTokens) :
          Start(NumReq, FALSE, <<>>, TimedTokens[i], NoHeader)
    \/ \E q \in BagToSet(reqs), ok \in BOOLEAN : StoreRespond(q, ok)
    \/ \E q \in BagToSet(reqs) : Resume(q)

Spec == Init /\ [][Next]_vars

(***************************************************************************)
(* One call at a time at a fixed instant, over every configuration of the   *)
(* Authenticator and the guard, with both credentials.                      *)
(***************************************************************************)
AuthTokens == <<"t1">>
\* the Authenticator as constructed: no middleware attached, bypass, or a
\* required-scope list and a signing secret
AuthConfigs ==
    {[attached |-> FALSE, skip |-> FALSE, required |-> <<>>, secret |-> NoSecret],
     [attached |-> TRUE, skip |-> TRUE, required |-> <<"write">>, secret |-> NoSecret]}
    \cup {[attached |-> TRUE, skip |-> FALSE, required |-> r, secret |-> k] :
            r \in {<<>>, <<"write">>, <<"read", "write">>},
            k \in {NoSecret, ServerSecret}}
\* the principals API tokens are issued for
AuthPrincipals ==
    {AuthUser("u1", NoRole, {"read"}), AuthUser("u2", "admin", {"read", "write"}),
     AuthUser("u1", "admin", {"*"}), AuthUser("u2", NoRole, {})}
\* the guards: require_auth(skip_auth=True), require_auth(scopes=...)
Guards ==
    {[skip |-> TRUE, scopes |-> <<>>]}
    \cup {[skip |-> FALSE, scopes |-> sc] : sc \in {<<>>, <<"read">>, <<"write", "read">>}}
JwtExpiresIn == {NoneInt, <<-1>>, <<TimeStep>>}
\* the tokens create_jwt_token can issue at time t under secret k
JwtTokens(k, t) ==
    {CreateJwtToken("u2", "admin", sc, e, k, t).token :
        sc \in {{"read"}, {"read", "write"}}, e \in JwtExpiresIn}
\* the Authorization header: absent, a JWT of this server with or without
\* the Bearer prefix, a JWT signed with another secret, a text that is no JWT
JwtHeaders(t) ==
    {NoHeader, Header("Bearer ", MalformedJwt)}
    \cup {Header(p, tok) : p \in {"", "Bearer "}, tok \in JwtTokens(ServerSecret, t)}
    \cup {Header("Bearer ", tok) : tok \in JwtTokens(OtherSecret, t)}

InitAuth ==
    /\ \E c \in AuthConfigs : InitServer(c.required, c.skip, c.secret, c.attached)
    /\ probe = ProbeIdle

NextAuth ==
    \/ \E p \in AuthPrincipals, w \in BOOLEAN :
          CreateApiToken(AuthTokens, p.id, p.role, p.scopes, NoneInt, w)
    \/ \E g \in Guards, api \in {NoToken, AuthTokens[1]}, jwt \in JwtHeaders(now) :
          Start(1, g.skip, g.scopes, api, jwt)
    \/ \E q \in BagToSet(reqs), ok \in BOOLEAN : StoreRespond(q, ok)
    \/ \E q \in BagToSet(reqs) : Resume(q)

SpecAuth == InitAuth /\ [][NextAuth]_vars

(***************************************************************************)
(* One call at a time against a store row of any content and a store that  *)
(* may fail.                                                                *)
(***************************************************************************)
GeneratedKey == "generated-key"
\* values a row under "api_token:t1" can hold
FaultTexts ==
    {RawText("not json"), JsonValueText,
     JsonDumps(TokenData("u1", NoRole, {"read"}, NoneInt, 0)),
     JsonDumps(TokenData("u2", "admin", {"read", "write"}, NoneInt, 0))}
\* Authorization headers: none, no JWT at all, and JWTs that are good,
\* expired, or signed with another secret
FaultHeaders(t) ==
    {NoHeader, Header("Bearer ", MalformedJwt)}
    \cup {Header("Bearer ", CreateJwtToken("u2", "admin", {"read", "write"}, e, k, t).token) :
            e \in {<<-1>>, <<TimeStep>>}, k \in {ServerSecret, OtherSecret}}

InitFaults ==
    /\ \E k \in {NoSecret, ServerSecret} : InitServer(<<"write">>, FALSE, k, TRUE)
    /\ probe = ProbeIdle

NextFaults ==
    \/ \E k \in {EncKey, GeneratedKey}, x \in FaultTexts : PutRow("t1", k, x)
    \/ \E sc \in {<<>>, <<"read">>}, api \in {NoToken, "t1"}, jwt \in FaultHeaders(now) :
          Start(1, FALSE, sc, api, jwt)
    \/ \E q \in BagToSet(reqs), ok \in BOOLEAN : StoreRespond(q, ok)
    \/ \E q \in BagToSet(reqs) : StoreUnconfigured(q)
    \/ \E q \in BagToSet(reqs) : Resume(q)
    \/ \E sc \in {{}, {"read"}}, e \in {NoneInt, <<TimeStep>>} :
          CreateJwtTokenCall("u2", "admin", sc, e)

SpecFaults == InitFaults /\ [][NextFaults]_vars

(***************************************************************************)
(* Refresh and logout over time, against a store that may fail.             *)
(***************************************************************************)
FlowTokens == <<"t1">>
FlowScopeSets == {{"read"}, {"read", RefreshScope}}
StoreOutcomes == {"ok", "error", "unconfigured"}

InitFlow ==
    /\ \E k \in {NoSecret, ServerSecret} : InitServer(<<>>, FALSE, k, TRUE)
    /\ probe = ProbeIdle

NextFlow ==
    \/ Tick
    \/ \E sc \in FlowScopeSets, e \in {NoneInt, <<TimeStep>>}, w \in BOOLEAN :
          CreateApiToken(FlowTokens, "u1", "admin", sc, e, w)
    \/ \E x \in {RawText("not json"), JsonValueText} : PutRow("t1", EncKey, x)
    \/ PutRow("t1", GeneratedKey, JsonValueText)
    \/ \E t \in Tokens, outcome \in StoreOutcomes : RefreshStart(t, outcome)
    \/ RefreshResume
    \/ \E t \in Tokens, outcome \in StoreOutcomes : Logout(t, outcome)

SpecFlow == InitFlow /\ [][NextFlow]_vars

(***************************************************************************)
(* Refresh tokens issued, refreshed and logged out over time; the store is *)
(* written by this process only and may fail.                               *)
(***************************************************************************)
NextLogout ==
    \/ Tick
    \/ \E e \in {NoneInt, <<TimeStep>>}, w \in BOOLEAN :
          CreateApiToken(FlowTokens, "u1", "user", {RefreshScope}, e, w)
    \/ \E t \in Tokens, outcome \in StoreOutcomes : RefreshStart(t, outcome)
    \/ RefreshResume
    \/ \E t \in Tokens, outcome \in StoreOutcomes : Logout(t, outcome)

SpecLogout == InitFlow /\ [][NextLogout]_vars

(***************************************************************************)
(* Sessions: tokens issued by verify_token, create_api_token and            *)
(* create_jwt_token, then refreshed, presented and revoked, at one instant. *)
(***************************************************************************)
SessionTokens == <<"t1">>
SessionRequired == {<<>>, <<"mcp:access">>, <<RefreshScope>>}
SessionExpiresIn == {NoneInt, <<0>>, <<-1>>, <<TimeStep>>}

InitSession ==
    /\ \E r \in SessionRequired, k \in {NoSecret, ServerSecret} :
          InitServer(r, FALSE, k, TRUE)
    /\ probe = ProbeIdle

NextSession ==
    \/ \E privy \in {"ok", "no_user", "error"}, write \in StoreOutcomes :
          VerifyToken(SessionTokens, "p1", privy, write)
    \/ \E e \in SessionExpiresIn, w \in BOOLEAN :
          CreateApiToken(SessionTokens, "u1", NoRole, {"read"}, e, w)
    \/ \E e \in SessionExpiresIn : CreateJwtTokenCall("u1", NoRole, {"read"}, e)
    \/ \E outcome \in StoreOutcomes : RefreshStart("t1", outcome)
    \/ RefreshResume
    \/ Start(1, FALSE, <<>>, "t1", NoHeader)
    \/ \E q \in BagToSet(reqs), ok \in BOOLEAN : StoreRespond(q, ok)
    \/ \E q \in BagToSet(reqs) : Resume(q)
    \/ \E ok \in BOOLEAN : RevokeApiToken("t1", ok)

SpecSession == InitSession /\ [][NextSession]_vars

(***************************************************************************)
(* The secrets client: calls of several processes, whose keys may differ,   *)
(* made one after another against one table; any request may fail.          *)
(***************************************************************************)
SecretNames == {"k"}
SecretValues == {"v1", "v2"}

InitStore ==
    /\ InitServer(<<>>, FALSE, NoSecret, FALSE)
    /\ probe = ProbeIdle

NextStore ==
    \/ \E n \in SecretNames, c \in Creators, ok \in BOOLEAN :
          ClientGet(n, c, EncKey, ok)
    \/ \E n \in SecretNames, v \in SecretValues, c \in Creators, ok \in BOOLEAN :
          SetCheck(1, n, v, c, EncKey, ok)
    \/ \E n \in SecretNames, ok \in BOOLEAN : SetCheck(1, n, "v1", "A", GeneratedKey, ok)
    \/ \E op \in BagToSet(ops), ok \in BOOLEAN : SetWrite(op, ok)
    \/ \E n \in SecretNames, c \in Creators, ok \in BOOLEAN : ClientDelete(n, c, ok)
    \/ \E c \in Creators, ok \in BOOLEAN : ClientList(c, EncKey, ok)

SpecStore == InitStore /\ [][NextStore]_vars

(***************************************************************************)
(* The secrets client: set calls of one tenant running at the same time,    *)
(* all under the process's key.                                             *)
(***************************************************************************)
InitRace ==
    /\ InitServer(<<>>, FALSE, NoSecret, FALSE)
    /\ probe = ProbeIdle

NextRace ==
    \/ \E n \in SecretNames, ok \in BOOLEAN : ClientGet(n, "A", EncKey, ok)
    \/ \E n \in SecretNames, v \in SecretValues, ok \in BOOLEAN :
          SetCheck(MaxSets, n, v, "A", EncKey, ok)
    \/ \E op \in BagToSet(ops), ok \in BOOLEAN : SetWrite(op, ok)
    \/ \E n \in SecretNames, ok \in BOOLEAN : ClientDelete(n, "A", ok)

SpecRace == InitRace /\ [][NextRace]_vars

(***************************************************************************)
(* The secrets client: rows of secrets and of API tokens, set and deleted  *)
(* one call after another; any request may fail.                            *)
(***************************************************************************)
IdemNames == {"k", ApiTokenName("t1")}

InitIdem ==
    /\ InitServer(<<>>, FALSE, NoSecret, FALSE)
    /\ probe = ProbeIdle

NextIdem ==
    \/ \E n \in IdemNames, c \in Creators, ok \in BOOLEAN :
          SetCheck(1, n, "v1", c, EncKey, ok)
    \/ \E op \in BagToSet(ops), ok \in BOOLEAN : SetWrite(op, ok)
    \/ \E c \in Creators, ok \in BOOLEAN : ClientDelete("k", c, ok)
    \/ \E ok \in BOOLEAN : RevokeApiTokenRequest("t1", ok)

SpecIdem == InitIdem /\ [][NextIdem]_vars

(***************************************************************************)
(* encrypt and decrypt on drawn strings.                                    *)
(***************************************************************************)
InitCrypt ==
    /\ InitServer(<<>>, FALSE, NoSecret, FALSE)
    /\ \E v \in SeqsUpTo(CodePoints, MaxLen) :
          probe = [pc |-> "drawn", data |-> v, enc |-> [ok |-> FALSE, token |-> NoRec],
                   key |-> "", dec |-> [ok |-> FALSE, str |-> <<>>]]

\* encrypt(data) by the process
EncryptStep ==
    /\ probe.pc = "drawn"
    /\ probe' = [probe EXCEPT !.pc = "encrypted", !.enc = EncryptStr(EncKey, probe.data)]
    /\ UNCHANGED <<serverVars, flowVars, clientVars>>

\* decrypt of the token by a process whose key is key
DecryptStep(key) ==
    /\ probe.pc = "encrypted" /\ probe.enc.ok
    /\ probe' = [probe EXCEPT !.pc = "decrypted", !.key = key,
                              !.dec = DecryptStr(key, probe.enc.token)]
    /\ UNCHANGED <<serverVars, flowVars, clientVars>>

NextCrypt ==
    \/ EncryptStep
    \/ \E key \in {EncKey, GeneratedKey} : DecryptStep(key)

SpecCrypt == InitCrypt /\ [][NextCrypt]_vars

(***************************************************************************)
(* The scope check on drawn inputs.                                         *)
(***************************************************************************)

InitScopes ==
    /\ InitServer(<<>>, FALSE, ServerSecret, TRUE)
    /\ \E s \in SUBSET ScopeNames, r \in SeqsUpTo(ScopeNames, MaxRequired) :
          probe = [pc |-> "drawn", scopes |-> s, required |-> r, out |-> FALSE]

CheckScopes ==
    /\ probe.pc = "drawn"
    /\ probe' = [probe EXCEPT !.pc = "checked",
                              !.out = HasRequiredScopes(probe.scopes, probe.required)]
    /\ UNCHANGED <<serverVars, flowVars, clientVars>>

NextScopes == CheckScopes

SpecScopes == InitScopes /\ [][NextScopes]_vars

\* C1: the scope check passes iff the required list is empty, or the
\* principal holds "*", or every required scope is among the principal's.
C1_ScopeCheckIff ==
    probe.pc = "checked" =>
        (probe.out <=>
            \/ probe.required = <<>>
            \/ "*" \in probe.scopes
            \/ {probe.required[i] : i \in 1..Len(probe.required)} \subseteq probe.scopes)

\* the check ran on a principal lacking one of two required scopes
C1_Witness ==
    /\ probe.pc = "checked"
    /\ Len(probe.required) = 2
    /\ probe.required[1] \in probe.scopes
    /\ probe.required[2] \notin probe.scopes
    /\ "*" \notin probe.scopes
    /\ ~probe.out

(***************************************************************************)
(* Properties.                                                              *)
(***************************************************************************)
Range(seq) == {seq[i] : i \in 1..Len(seq)}
\* a principal with these scopes satisfies the required list
Satisfies(scopes, required) ==
    required = <<>> \/ "*" \in scopes \/ Range(required) \subseteq scopes
\* the call that just returned ran authenticate past the bypass with an
\* X-API-Token header
ResolvedApi == obs.kind = "done" /\ obs.auth_called /\ ~skip_auth /\ obs.api # NoToken
\* the Authorization header of the call that just returned carries a JWT
\* this Authenticator accepts at time t
JwtVerifies(h, t) ==
    /\ h.present
    /\ h.token.kind = "jwt"
    /\ jwt_secret # NoSecret
    /\ h.token.key = jwt_secret
    /\ ~(h.token.payload.has_exp /\ h.token.payload.exp <= t)
    /\ Satisfies(h.token.payload.scopes, required_scopes)
JwtPrincipal(h) ==
    AuthUser(h.token.payload.sub, h.token.payload.role, h.token.payload.scopes)

\* C2: authenticate returns the 'dev' principal under bypass; else the
\* API-token principal when the header is present and resolves, the JWT header
\* not being evaluated; else, the API-token path having failed or not run,
\* the JWT principal when the Authorization header (with or without
\* "Bearer ") verifies and passes the scope check; else the fixed error and
\* no principal.
C2_Precedence ==
    obs.kind = "done" /\ obs.auth_called =>
        IF skip_auth THEN obs.auth = Ok(DevUser)
        ELSE /\ (obs.api = NoToken <=> obs.api_res = NotRun)
             /\ IF obs.api # NoToken /\ obs.api_res.success
                THEN obs.auth = obs.api_res /\ ~obs.jwt_evaluated
                ELSE IF JwtVerifies(obs.jwt, now)
                THEN obs.auth = Ok(JwtPrincipal(obs.jwt))
                ELSE obs.auth = Fail(ErrAuthFailed)

\* the API token did not resolve and the call was authenticated by its
\* Bearer JWT
C2_Witness ==
    /\ obs.kind = "done" /\ obs.auth_called /\ ~skip_auth
    /\ obs.api # NoToken /\ obs.looked_up /\ ~obs.api_res.success
    /\ obs.jwt.prefix = "Bearer "
    /\ obs.auth.success /\ obs.auth.user.id = "u2"

\* C3: a resolution that starts less than TTL after the start of an earlier,
\* already returned resolution of the same token that read the store and
\* succeeded performs no store lookup (the two perform exactly one), and a
\* resolution is served without a lookup only from an entry younger than TTL
\* (at TTL or older it reads the store again).
C3_CacheTtl ==
    ResolvedApi =>
        /\ obs.near => ~obs.looked_up /\ obs.hit /\ obs.auth.success
        /\ ~obs.looked_up =>
              /\ obs.hit
              /\ obs.api \in DOMAIN api_token_cache
              /\ now - api_token_cache_timestamps[obs.api] < api_token_cache_ttl
        /\ obs.looked_up => ~obs.hit

\* the second resolution came TTL - TimeStep after the first and was served
\* from the cache
C3_Witness ==
    /\ ResolvedApi /\ obs.near /\ obs.hit /\ ~obs.looked_up
    /\ now - missStart[obs.api] = api_token_cache_ttl - TimeStep

\* C4: a resolution of t that starts after revoke_api_token(t) succeeded and
\* is not served from the cache reads the store, fails with
\* 'Invalid API token.', returns no principal and leaves the cache as it was.
C4_RevokedFreshFails ==
    [][(obs'.kind = "done" /\ obs'.auth_called /\ obs'.api # NoToken
            /\ obs'.revoked /\ ~obs'.hit)
        => /\ obs'.looked_up
           /\ obs'.api_res = Fail(ErrInvalidToken)
           /\ ~obs'.auth.success /\ obs'.auth.user = NoUser
           /\ api_token_cache' = api_token_cache
           /\ api_token_cache_timestamps' = api_token_cache_timestamps]_vars

\* a revoked token whose cache entry had aged out was looked up again
C4_Witness ==
    /\ ResolvedApi /\ obs.revoked /\ ~obs.hit /\ obs.looked_up
    /\ obs.api \in DOMAIN api_token_cache
    /\ obs.store_ok

\* C5 (as claimed): no authenticate call presenting only t, made at or after
\* r + TTL where r is when revoke_api_token(t) returned True, succeeds.
C5_NoSuccessAfterRevokePlusTtl ==
    (/\ ResolvedApi
     /\ ~obs.jwt.present
     /\ revokedAt[obs.api] >= 0
     /\ obs.start >= revokedAt[obs.api] + api_token_cache_ttl)
    => ~obs.auth.success

\* C6 (as claimed): the API-token path returns no principal for a token whose
\* stored record had expires_at earlier than the time of the call.
C6_ExpiredTokenRejected ==
    (/\ ResolvedApi
     /\ obs.stored
     /\ Truthy(issuedArgs[obs.api].expires_in)
     /\ issuedArgs[obs.api].at + issuedArgs[obs.api].expires_in[1] < obs.start)
    => ~obs.api_res.success

\* C7: a JWT whose exp is earlier than the current time is never accepted,
\* and one issued for this Authenticator's signing secret (for instance by
\* create_jwt_token with expires_in = -1) fails with an expiry error.
ExpiryErrors == {ErrJwtExpired, ErrJwtSigExpired}
C7_ExpiredJwtRejected ==
    (/\ obs.kind = "done" /\ obs.jwt_evaluated
     /\ obs.jwt.token.kind = "jwt"
     /\ obs.jwt.token.payload.has_exp
     /\ obs.jwt.token.payload.exp < now)
    => /\ ~obs.jwt_res.success /\ obs.jwt_res.user = NoUser
       /\ ~obs.auth.success /\ obs.auth.user = NoUser
       /\ (jwt_secret # NoSecret /\ obs.jwt.token.key = jwt_secret)
             => obs.jwt_res.error[1] \in ExpiryErrors

\* a JWT issued with expires_in = -1 under the server's secret was refused
C7_Witness ==
    /\ obs.kind = "done" /\ obs.jwt_evaluated
    /\ obs.jwt.token = CreateJwtToken("u2", "admin", {"read", "write"}, <<-1>>,
                                      jwt_secret, now).token
    /\ obs.jwt.token.kind = "jwt"
    /\ Satisfies(obs.jwt.token.payload.scopes, required_scopes)
    /\ obs.jwt_res.error[1] \in ExpiryErrors

\* C8: a token issued for (user_id, role, scopes), its row stored, not
\* revoked, then presented in X-API-Token to an Authenticator whose required
\* scopes it satisfies (the store answering the lookup) authenticates as a
\* principal with that id, role and scopes.
C8_IssueThenResolve ==
    (/\ ResolvedApi
     /\ obs.stored
     /\ revokedAt[obs.api] < 0
     /\ obs.hit \/ obs.store_ok
     /\ Satisfies(issuedArgs[obs.api].scopes, required_scopes))
    => /\ obs.auth.success
       /\ obs.auth.user.id = issuedArgs[obs.api].user_id
       /\ obs.auth.user.role = issuedArgs[obs.api].role
       /\ obs.auth.user.scopes = issuedArgs[obs.api].scopes

\* an admin token with two scopes was read from the store and resolved
C8_Witness ==
    /\ ResolvedApi /\ obs.looked_up /\ obs.store_ok
    /\ required_scopes = <<"read", "write">>
    /\ obs.stored
    /\ obs.auth = Ok(AuthUser("u2", "admin", {"read", "write"}))

\* C9 (as claimed): a token issued with scopes ['read'], presented alone to an
\* Authenticator requiring ['write'], fails with an error naming 'write'.
C9_MissingScopeNamed ==
    (/\ ResolvedApi
     /\ obs.stored
     /\ issuedArgs[obs.api].scopes = {"read"}
     /\ required_scopes = <<"write">>
     /\ ~obs.jwt.present
     /\ obs.store_ok)
    => /\ ~obs.auth.success
       /\ "write" \in Range(obs.auth.error[2])

\* C10: the guard invokes the wrapped operation iff it is configured to skip,
\* or no Authenticator is attached, or authenticate succeeded with a principal
\* holding every scope of the guard (or '*'); then ctx.user is that
\* principal; otherwise it returns {'error': ...} and does not invoke.
C10_Guard ==
    obs.kind = "done" =>
        LET authed ==
              /\ obs.auth_called /\ obs.auth.success
              /\ \A i \in 1..Len(obs.scopes) :
                    obs.scopes[i] \in obs.auth.user.scopes \/ "*" \in obs.auth.user.scopes
        IN  /\ obs.invoked <=> (obs.guard_skip \/ ~attached \/ authed)
            /\ obs.auth_called <=> (~obs.guard_skip /\ attached)
            /\ (obs.invoked /\ obs.auth_called) => obs.ctx_user = obs.auth.user
            /\ obs.invoked => obs.ret = NoError
            /\ ~obs.invoked => obs.ret[1] # "" /\ obs.ctx_user = NoUser

\* a guard declaring two scopes let a JWT principal holding both through
C10_Witness ==
    /\ obs.kind = "done" /\ obs.auth_called /\ ~skip_auth
    /\ obs.scopes = <<"write", "read">>
    /\ obs.invoked
    /\ obs.ctx_user = AuthUser("u2", "admin", {"read", "write"})

\* C11: when authentication succeeded and the principal lacks a scope of the
\* guard (holding no '*'), the guard returns 'Insufficient permissions.
\* Required scope: X' with X the first declared scope it lacks; a failed
\* authentication never produces that error.
GuardScopeError == "Insufficient permissions. Required scope: "
AuthenticationErrors ==
    {ErrAuthFailed, ErrInvalidToken, ErrTokenFormat, ErrJwtNotConfigured,
     ErrJwtExpired, ErrJwtSigExpired, ErrJwtBadSig, ErrJwtMalformed,
     ErrInsufficient(<<>>)[1]}
C11_GuardScopeError ==
    (obs.kind = "done" /\ obs.auth_called) =>
        LET lacks == {i \in 1..Len(obs.scopes) :
                        obs.scopes[i] \notin obs.auth.user.scopes
                        /\ "*" \notin obs.auth.user.scopes}
        IN  /\ (obs.auth.success /\ lacks # {}) =>
                  /\ ~obs.invoked
                  /\ obs.ret[1] = GuardScopeError
                  /\ \E i \in lacks :
                        /\ \A k \in lacks : i <= k
                        /\ obs.ret[2] = <<obs.scopes[i]>>
            /\ ~obs.auth.success =>
                  /\ obs.ret = obs.auth.error
                  /\ obs.ret[1] \in AuthenticationErrors
                  /\ obs.ret[1] # GuardScopeError
            /\ GuardScopeError \notin AuthenticationErrors

\* an authenticated principal with no scopes met a guard declaring
\* ['write', 'read'] and was told 'write'
C11_Witness ==
    /\ obs.kind = "done" /\ obs.auth_called /\ obs.auth.success
    /\ obs.auth.user.scopes = {}
    /\ obs.scopes = <<"write", "read">>
    /\ obs.ret = <<GuardScopeError, <<"write">>>>

\* C12: authenticate and the guard never raise: for every outcome of the
\* store lookup (found, absent, not JSON, JSON but no object, undecryptable,
\* transport error, store not configured) and every JWT outcome (bad
\* signature, expired, malformed, no signing secret) each path and
\* authenticate return success with a principal or failure with an error
\* string, and the guard returns the operation's result or an error object.
Structured(r) ==
    \/ r.success /\ r.user # NoUser /\ r.error = NoError
    \/ ~r.success /\ r.user = NoUser /\ r.error[1] \notin {"", ErrRaised, ErrNotRun}
C12_NeverRaises ==
    (obs.kind = "done" /\ obs.auth_called) =>
        /\ Structured(obs.auth)
        /\ obs.looked_up =>
              /\ Structured(obs.api_res)
              /\ obs.lookup \in {"absent", "undecryptable", "error"}
                    => obs.api_res = Fail(ErrInvalidToken)
              /\ obs.lookup = "raw" => obs.api_res = Fail(ErrTokenFormat)
              /\ obs.lookup \in {"jsonval", "unconfigured"}
                    => obs.api_res = Fail(ErrApiException)
              /\ obs.lookup = "json"
                    => obs.api_res.success \/ obs.api_res.error = ErrInsufficient(required_scopes)
        /\ obs.jwt_evaluated =>
              /\ Structured(obs.jwt_res)
              /\ jwt_secret = NoSecret => obs.jwt_res = Fail(ErrJwtNotConfigured)
              /\ (jwt_secret # NoSecret /\ obs.jwt.token.kind = "malformed")
                    => obs.jwt_res = Fail(ErrJwtMalformed)
              /\ (jwt_secret # NoSecret /\ obs.jwt.token.kind = "jwt"
                    /\ obs.jwt.token.key # jwt_secret)
                    => obs.jwt_res = Fail(ErrJwtBadSig)
              /\ (jwt_secret # NoSecret /\ obs.jwt.token.kind = "jwt"
                    /\ obs.jwt.token.key = jwt_secret
                    /\ obs.jwt.token.payload.has_exp /\ obs.jwt.token.payload.exp <= now)
                    => obs.jwt_res = Fail(ErrJwtSigExpired)
        /\ IF obs.invoked THEN obs.ret = NoError
           ELSE obs.ret[1] \notin {"", ErrRaised, ErrNotRun}

\* the row held JSON that is no object and the JWT had a bad signature: both
\* paths returned errors and the guard returned the generic failure
C12_Witness ==
    /\ obs.kind = "done" /\ obs.auth_called
    /\ obs.lookup = "jsonval" /\ obs.api_res = Fail(ErrApiException)
    /\ obs.jwt_res = Fail(ErrJwtBadSig)
    /\ ~obs.invoked /\ obs.ret = <<ErrAuthFailed, <<>>>>

\* C13: refresh(t) succeeds iff the lookup of 'api_token:' + t returns a
\* record whose value is a JSON object, whose expires_at (if present) is not
\* earlier than now and whose scopes include 'auth:refresh', a signing secret
\* being configured; with no record it fails with 'Invalid refresh token',
\* expired with 'Refresh token has expired', the scope missing with 'Invalid
\* refresh token: Missing required scope'; a failing refresh issues no JWT.
C13_RefreshIff ==
    flow.kind = "refresh" =>
        LET d == flow.resp.doc
            returned == flow.lookup = "json"
            expired == d.has_expires_at /\ d.expires_at < flow.at
            scoped == RefreshScope \in d.scopes
        IN  /\ flow.at = now
            /\ flow.res.success <=>
                  (returned /\ ~expired /\ scoped /\ jwt_secret # NoSecret)
            /\ flow.lookup = "absent" => flow.res = FlowFail(ErrInvalidRefresh)
            /\ (returned /\ expired) => flow.res = FlowFail(ErrRefreshExpired)
            /\ (returned /\ ~expired /\ ~scoped) => flow.res = FlowFail(ErrRefreshScope)
            /\ ~flow.res.success =>
                  /\ flow.res.token = NoJwt /\ flow.res.user = NoUser
                  /\ flow.res.error # ""
            /\ flow.res.success =>
                  /\ flow.res.token.kind = "jwt"
                  /\ flow.res.token.key = jwt_secret
                  /\ flow.res.token.payload.sub = d.id
                  /\ flow.res.token.payload.scopes = d.scopes \ {RefreshScope}
                  /\ flow.res.token.payload.exp = now + token_expiration

\* a refresh token was refreshed at the very second of its expires_at
C13_Witness ==
    /\ flow.kind = "refresh" /\ flow.res.success
    /\ flow.resp.doc.has_expires_at
    /\ flow.resp.doc.expires_at = now

\* C14: a successful refresh(t) returns the refresh token t it was given, and
\* no step of a refresh writes to the store: the record is not rotated,
\* deleted or extended.
C14_RefreshNoWrite ==
    [][/\ refreshing' # refreshing => store' = store
       /\ (flow'.kind = "refresh" /\ flow'.res.success)
             => /\ flow'.res.refresh_token = flow'.arg
                /\ store' = store]_vars

\* t1 was refreshed after its issue and its row is still the row issued
C14_Witness ==
    /\ flow.kind = "refresh" /\ flow.res.success
    /\ flow.arg = "t1" /\ flow.res.refresh_token = "t1"
    /\ now > issuedArgs["t1"].at
    /\ store["t1"] = Encrypt(EncKey, JsonDumps(TokenData(
                        issuedArgs["t1"].user_id, issuedArgs["t1"].role,
                        issuedArgs["t1"].scopes, issuedArgs["t1"].expires_in,
                        issuedArgs["t1"].at)))

\* C15: logout(t) reports success exactly when the revoke call returned
\* True, whether or not a record for t existed; when it returned False the
\* result is success=false with 'Failed to revoke refresh token'.
C15_LogoutFollowsRevoke ==
    flow.kind = "logout" =>
        /\ flow.res.success <=> flow.revoke = "true"
        /\ flow.revoke = "false" => flow.res = FlowFail(ErrLogoutFailed)
        /\ flow.res.success => flow.res.error = "" /\ store[flow.arg] = NoRec

\* logout of a token that was never issued reported success
C15_Witness ==
    /\ flow.kind = "logout" /\ flow.res.success
    /\ flow.arg \notin issued /\ flow.lookup = "absent"

(***************************************************************************)
(* The secrets client.                                                      *)
(***************************************************************************)
\* the rows whose (name, creator_id) is exactly (name, creator)
RowsOf(name, creator) == {r \in table : r.name = name /\ r.creator = creator}
\* a get that came back right after set(k, v1); set(k, v2) of the same
\* process and tenant, run one after the other, with no request and no
\* decryption failing so far
AfterSetSet ==
    /\ ret.kind = "get" /\ ret.name = "k" /\ scen.stage = 2
    /\ ret.creator = scen.creator /\ ret.key = scen.key
    /\ ~faulty

\* C16: after set_secret(k, v1) and then set_secret(k, v2) both succeeded
\* for the same (name, tenant), get_secret(k) returns v2, the second set
\* returned the id the first returned, and no second record exists for
\* the pair.
C16_SetSetGet ==
    AfterSetSet =>
        /\ ret.secret.some /\ ret.secret.value = RawText("v2")
        /\ scen.id2 = scen.id1
        /\ Cardinality(RowsOf("k", scen.creator)) <= 1

\* the same, for calls whose existence checks matched at most one row:
\* there the second set updates the row of the first and get returns v2
SetSetGetWhenLookupUnique ==
    (AfterSetSet /\ scen.unique /\ Cardinality(Matching(table, "k", scen.creator)) <= 1)
        => /\ ret.secret.some /\ ret.secret.value = RawText("v2")
           /\ ret.secret.id = scen.id1 /\ scen.id2 = scen.id1
           /\ Cardinality(Matching(table, "k", scen.creator)) = 1

\* C17: whatever the requests and decryptions did, the table holds at most
\* one row for each (name, creator_id).
C17_UniquePair ==
    \A n \in SecretNames, c \in Creators : Cardinality(RowsOf(n, c)) <= 1

\* C18: once the sets of one tenant for k that ran at the same time have
\* all returned, no request having failed, the table holds a single row for
\* the key, its value is the value written last, and a get returns it.
C18_LastWriterWins ==
    (ops = EmptyBag /\ ~faulty /\ lastWrite # NoValue) =>
        /\ Cardinality(RowsOf("k", "A")) = 1
        /\ \A r \in RowsOf("k", "A") :
              Decrypt(EncKey, r.value).text = RawText(lastWrite)
        /\ (ret.kind = "get" /\ ret.creator = "A")
              => ret.secret.some /\ ret.secret.value = RawText(lastWrite)

\* C19: a get whose request failed returns something other than what a get
\* of an absent name returns.
C19_TransportFailureDistinct ==
    (ret.kind = "get" /\ ret.lookup = "error") => ret.secret # NoneSecret

Readable(response, key) ==
    {i \in DOMAIN response : Decrypt(key, response[i].value).ok}

\* C21: a list whose request succeeded returns exactly the rows matching
\* the tenant filter whose ciphertext decrypts, decrypted, in the order the
\* store returned them; an undecryptable row is left out and the rows before
\* and after it are still returned.
C21_ListSkipsUndecryptable ==
    (ret.kind = "list" /\ ret.request_ok) =>
        LET good == Readable(ret.response, ret.key)
            pos(i) == Cardinality({j \in good : j <= i})
        IN  /\ {ret.response[i] : i \in DOMAIN ret.response} = Listed(table, ret.creator)
            /\ Len(ret.response) = Cardinality(Listed(table, ret.creator))
            /\ Len(ret.listed) = Cardinality(good)
            /\ \A i \in good :
                  /\ ret.listed[pos(i)].id = ret.response[i].id
                  /\ ret.listed[pos(i)].creator = ret.response[i].creator
                  /\ Encrypt(ret.key, ret.listed[pos(i)].value) = ret.response[i].value

\* the store returned an undecryptable row first and a decryptable row
\* after it, and the list returned the second
C21_Witness ==
    /\ ret.kind = "list" /\ ret.request_ok
    /\ Len(ret.response) = 2 /\ Readable(ret.response, ret.key) = {2}
    /\ Len(ret.listed) = 1 /\ ret.listed[1].id = ret.response[2].id

\* C22: delete_secret and revoke_api_token applied to an absent record
\* return True exactly when the request succeeded and leave the table as it
\* was; applied a second time in a row, with the same fate of the request,
\* they leave the table and the result of the first.
C22_DeleteIdempotent ==
    [][ret'.kind = "delete" =>
         /\ ret'.lookup = "absent"
               => table' = table /\ ret'.deleted = ret'.request_ok
         /\ (/\ ret.kind = "delete" /\ ret.name = ret'.name
             /\ ret.creator = ret'.creator /\ ret.request_ok = ret'.request_ok)
               => table' = table /\ ret'.deleted = ret.deleted]_vars

\* revoke_api_token returned True for a token whose row had been stored and
\* was gone already
C22_Witness ==
    /\ ret.kind = "delete" /\ ret.name = ApiTokenName("t1") /\ ret.creator = NoCreator
    /\ ret.lookup = "absent" /\ ret.deleted /\ next_id > 1

\* C23: no step of authenticate writes to or deletes from the store (it
\* changes the token cache only); the result of the JWT path is decided by
\* the header, the signing secret, the required scopes and the clock, whatever
\* the store holds or answers; create_jwt_token changes nothing, fails with
\* ValueError when no signing secret is configured and otherwise returns the
\* token of its arguments.
C23_AuthenticateReadOnly ==
    [][/\ (reqs' # reqs \/ obs'.kind # "none")
            => UNCHANGED <<store, issued, config>>
       /\ (obs'.kind # "none" /\ obs'.jwt_evaluated)
            => /\ obs'.jwt_res.success <=> JwtVerifies(obs'.jwt, now)
               /\ obs'.jwt_res.success => obs'.jwt_res.user = JwtPrincipal(obs'.jwt)
       /\ flow'.kind = "create_jwt_token"
            => /\ UNCHANGED <<store, issued, config, reqs,
                              api_token_cache, api_token_cache_timestamps>>
               /\ jwt_secret = NoSecret
                     => /\ ~flow'.res.success /\ flow'.res.token = NoJwt
                        /\ flow'.res.error = ValueErrorJwtSecret
               /\ jwt_secret # NoSecret
                     => /\ flow'.res.success /\ flow'.res.token.kind = "jwt"
                        /\ flow'.res.token.key = jwt_secret
                        /\ flow'.res.token.payload.sub = flow'.res.user.id
                        /\ flow'.res.token.payload.scopes = flow'.res.user.scopes]_vars

\* a JWT was accepted by a call whose API-token lookup met a row of the
\* store that does not decrypt, and the row is still there
C23_Witness ==
    /\ obs.kind # "none" /\ obs.looked_up /\ obs.lookup = "undecryptable"
    /\ obs.jwt_evaluated /\ obs.jwt_res.success
    /\ store["t1"] # NoRec

\* C24 as stated: for every string v, encrypt(v) returns a token and
\* decrypt of it under the same key returns v.
C24_RoundTripEveryString ==
    /\ probe.pc = "encrypted" => probe.enc.ok
    /\ (probe.pc = "decrypted" /\ probe.key = EncKey)
          => probe.dec.ok /\ probe.dec.str = probe.data

\* the string holds no surrogate code point
Encodable(data) == \A i \in DOMAIN data : ~IsSurrogate(data[i])

\* C24: for every string v without a lone surrogate (the empty string and
\* non-ASCII text included) decrypt(encrypt(v)) = v under the same key; on
\* a string with a lone surrogate encrypt raises and returns no token.
C24_RoundTrip ==
    /\ probe.pc \in {"encrypted", "decrypted"}
          => (probe.enc.ok <=> Encodable(probe.data))
    /\ (probe.pc = "decrypted" /\ probe.key = EncKey)
          => probe.dec.ok /\ probe.dec.str = probe.data

\* a string of characters of two, three and four bytes came back
C24_Witness ==
    /\ probe.pc = "decrypted" /\ probe.key = EncKey
    /\ probe.data = <<233, 8364, 128512>> /\ probe.dec.str = probe.data

\* logout(t1) of the issued refresh token t1 has just reported success and
\* no refresh is in flight
LoggedOut ==
    /\ flow.kind = "logout" /\ flow.arg = "t1" /\ flow.res.success
    /\ "t1" \in issued /\ refreshing.pc = "idle"
\* a refresh of t1 whose lookup reached the store's client returned
RefreshedAfter == flow.kind = "refresh" /\ flow.arg = "t1" /\ flow.lookup # "unconfigured"

\* C25: once logout(t) has succeeded, every refresh(t) started afterwards
\* fails with 'Invalid refresh token' and issues no JWT, at whatever time
\* it is made.
C25_NoRefreshAfterLogout ==
    [](LoggedOut => [](RefreshedAfter => /\ flow.res = FlowFail(ErrInvalidRefresh)
                                         /\ flow.res.token = NoJwt))

\* a refresh token that was stored, would still refresh by its scopes and
\* its expiry, and was refused because its row is gone
C25_Witness ==
    /\ RefreshedAfter /\ flow.res = FlowFail(ErrInvalidRefresh)
    /\ flow.lookup = "absent" /\ jwt_secret # NoSecret
    /\ "t1" \in issued /\ issuedArgs["t1"].write_ok
    /\ issuedArgs["t1"].expires_in = NoneInt /\ now > issuedArgs["t1"].at

\* a refresh of a refresh token that verify_token issued has succeeded
SessionRefreshed ==
    /\ flow.kind = "refresh" /\ flow.res.success
    /\ flow.arg \in issued /\ issuedArgs[flow.arg].session # NoJwt

\* C26: the JWT minted by a refresh of a session's refresh token carries
\* the scopes of the JWT minted at verify_token, so it passes every
\* required-scope check that one passed.
C26_RefreshKeepsScopes ==
    SessionRefreshed =>
        /\ flow.res.token.payload.scopes = issuedArgs[flow.arg].session.payload.scopes
        /\ \A required \in SessionRequired :
              HasRequiredScopes(issuedArgs[flow.arg].session.payload.scopes, required)
                 => HasRequiredScopes(flow.res.token.payload.scopes, required)

\* C27: a refresh token issued by verify_token, presented in X-API-Token,
\* never makes authenticate return a principal, whatever scopes the
\* Authenticator requires.
C27_RefreshTokenOnlyRefreshes ==
    (/\ obs.kind = "done" /\ obs.auth_called /\ obs.api \in issued
     /\ issuedArgs[obs.api].session # NoJwt)
    => ~obs.auth.success /\ obs.auth.user = NoUser

\* C28: every token that create_api_token or verify_token returned has its
\* row in the store until it is revoked.
C28_ReturnedTokenStored ==
    \A t \in issued : revokedAt[t] < 0 => store[t] # NoRec

\* C29: a token record issued with expires_in, whatever its value, carries
\* expires_at = issue time + expires_in, a JWT issued with expires_in carries
\* exp = issue time + expires_in, and without expires_in neither has an expiry.
C29_ExpiryWheneverProvided ==
    /\ \A t \in issued :
          (issuedArgs[t].write_ok /\ store[t] # NoRec) =>
              LET doc == Decrypt(EncKey, store[t]).text.doc
                  e == issuedArgs[t].expires_in
              IN  /\ doc.has_expires_at <=> e # NoneInt
                  /\ e # NoneInt => doc.expires_at = issuedArgs[t].at + e[1]
    /\ (flow.kind = "create_jwt_token" /\ flow.res.success) =>
          LET payload == flow.res.token.payload
              e == flow.res.expires_in
          IN  /\ payload.has_exp <=> e # NoneInt
              /\ e # NoneInt => payload.exp = flow.at + e[1]

\* the same for every expires_in other than 0: the expiry is there and is
\* issue time + expires_in
ExpiryWhenNonZero ==
    /\ \A t \in issued :
          (issuedArgs[t].write_ok /\ store[t] # NoRec) =>
              LET doc == Decrypt(EncKey, store[t]).text.doc
                  e == issuedArgs[t].expires_in
              IN  /\ doc.has_expires_at <=> (e # NoneInt /\ e # <<0>>)
                  /\ doc.has_expires_at => doc.expires_at = issuedArgs[t].at + e[1]
    /\ (flow.kind = "create_jwt_token" /\ flow.res.success) =>
          LET payload == flow.res.token.payload
              e == flow.res.expires_in
          IN  /\ payload.has_exp <=> (e # NoneInt /\ e # <<0>>)
              /\ payload.has_exp => payload.exp = flow.at + e[1]

\* a refresh token presented in X-API-Token is refused exactly when the
\* Authenticator requires a scope other than 'auth:refresh'
RefreshTokenRefusedByScope ==
    (/\ obs.kind = "done" /\ obs.auth_called /\ obs.api \in issued
     /\ issuedArgs[obs.api].session # NoJwt /\ obs.lookup = "json")
    => (obs.auth.success <=> required_scopes \in {<<>>, <<RefreshScope>>})

\* the rows that belong to a tenant
TenantRows(rows) == {r \in rows : r.creator # NoCreator}

\* C30: a get, set or delete called without a tenant acts only on rows with
\* no creator_id: the get returns no tenant's row, and the rows of every
\* tenant are the same after the call as before it.
C30_TenantlessOnlyGlobal ==
    [][(ret'.kind \in {"get", "set", "delete"} /\ ret'.creator = NoCreator)
          => /\ TenantRows(table') = TenantRows(table)
             /\ ret'.secret.some => ret'.secret.creator = NoCreator]_vars

====
